---- MODULE Spec2Model ----
(***************************************************************************)
(* Stream handling, broadcast routing and the tool-call interaction loop   *)
(* of the chatpanel background worker (src/src/background).                *)
(*                                                                         *)
(* JavaScript runs each handler to completion between awaits, so every     *)
(* action below is one such run: from the event that resumes a handler     *)
(* (a message, a tab event, a settled promise) to its next await.          *)
(***************************************************************************)
EXTENDS Integers, Sequences, FiniteSets, TLC

(***************************************************************************)
(* Bounds of the model.                                                    *)
(***************************************************************************)
\* number of stream readers (streaming responses) created in one behaviour
MaxStreams == 3
\* number of lines of a response body drawn for the decoder specification
MaxLines == 3
\* number of broadcast callbacks that may be suspended at the same time
MaxPending == 2

Agents == {"A", "B"}
Tabs == {1, 2}
Readers == 1..MaxStreams
\* activeStreams.get(agentId) === undefined
NoStream == 0

(***************************************************************************)
(* Wire text.  A body is a sequence of bytes; one string stands for one    *)
(* byte or, after decoding, one character:                                 *)
(*   "{" c1 .. cn "}"  the JSON object {"choices":[{"delta":{"content":    *)
(*                     "c1..cn"}}]} (n = 0: an object without content)     *)
(*   "D"               the line prefix `data: `                            *)
(*   "S"               the sentinel text `[DONE]`                          *)
(*   "x"               text that is not JSON                               *)
(*   Lead, Cont        the two bytes of one 2-byte UTF-8 character, which  *)
(*                     decodes to "U"; a byte sequence that is not a whole *)
(*                     character decodes to Repl (U+FFFD)                  *)
(***************************************************************************)
NL == "\n"
Lead == "c3"
Cont == "a9"
Repl == "?"
WhiteSpace == {" ", NL}
ContentChars == {"a", "b", "U", "S", Repl}

\* new TextDecoder().decode(value): every chunk is decoded on its own
RECURSIVE decode(_)
decode(bytes) ==
  IF bytes = <<>> THEN <<>>
  ELSE IF Head(bytes) = Lead
    THEN IF Len(bytes) >= 2 /\ bytes[2] = Cont
           THEN <<"U">> \o decode(SubSeq(bytes, 3, Len(bytes)))
           ELSE <<Repl>> \o decode(Tail(bytes))
  ELSE IF Head(bytes) = Cont
    THEN <<Repl>> \o decode(Tail(bytes))
  ELSE <<Head(bytes)>> \o decode(Tail(bytes))

\* String.prototype.trim
RECURSIVE TrimLeft(_)
TrimLeft(s) ==
  IF s # <<>> /\ Head(s) \in WhiteSpace THEN TrimLeft(Tail(s)) ELSE s

RECURSIVE TrimRight(_)
TrimRight(s) ==
  IF s # <<>> /\ s[Len(s)] \in WhiteSpace
    THEN TrimRight(SubSeq(s, 1, Len(s) - 1)) ELSE s

trim(s) == TrimRight(TrimLeft(s))

\* buffer.split('\n'): the segments between newlines, at least one
RECURSIVE split(_)
split(s) ==
  IF \A i \in 1..Len(s) : s[i] # NL THEN <<s>>
  ELSE LET i == CHOOSE k \in 1..Len(s) :
                  s[k] = NL /\ \A j \in 1..(k - 1) : s[j] # NL
       IN <<SubSeq(s, 1, i - 1)>> \o split(SubSeq(s, i + 1, Len(s)))

\* line.replace(/^data: /, '')
StripData(line) ==
  IF line # <<>> /\ Head(line) = "D" THEN Tail(line) ELSE line

\* JSON.parse followed by
\* data.choices?.[0]?.delta?.content || data.choices?.[0]?.message?.content.
\* JSON.parse accepts white space around the value; ok = FALSE is a throw.
JSONParse(s) ==
  LET t == trim(s) IN
  IF /\ Len(t) >= 2
     /\ t[1] = "{"
     /\ t[Len(t)] = "}"
     /\ \A i \in 2..(Len(t) - 1) : t[i] \in ContentChars
    THEN [ok |-> TRUE, content |-> SubSeq(t, 2, Len(t) - 1)]
    ELSE [ok |-> FALSE, content |-> <<>>]

Skip == [kind |-> "skip", content |-> <<>>]
Threw == [kind |-> "throw", content |-> <<>>]
Delta(c) == [kind |-> "delta", content |-> c]

\* A mutant of LineEvent: a parse failure is not caught.
LineEventNoCatch(line) ==
  IF trim(line) = <<>> \/ \E i \in 1..Len(line) : line[i] = "S" THEN Skip
  ELSE LET jsonStr == trim(StripData(line)) IN
       IF jsonStr = <<>> THEN Skip
       ELSE LET data == JSONParse(jsonStr) IN
            IF ~data.ok THEN Threw
            ELSE IF data.content = <<>> THEN Skip
            ELSE Delta(data.content)

\* The body of `for (const line of lines)` for one line: what it broadcasts.
LineEvent(line) ==
  IF trim(line) = <<>> \/ \E i \in 1..Len(line) : line[i] = "S" THEN Skip
  ELSE LET jsonStr == trim(StripData(line)) IN
       IF jsonStr = <<>> THEN Skip
       ELSE LET data == JSONParse(jsonStr) IN
            IF ~data.ok THEN Skip
            ELSE IF data.content = <<>> THEN Skip
            ELSE Delta(data.content)

\* The `if (done)` branch: one parse attempt on what is left in the buffer.
FinalEvent(buf) ==
  IF trim(buf) = <<>> THEN Skip
  ELSE LET data == JSONParse(buf) IN
       IF ~data.ok THEN Skip
       ELSE IF data.content = <<>> THEN Skip
       ELSE Delta(data.content)

StreamContent(c, first) ==
  [action |-> "STREAM_CONTENT", content |-> c, isFirst |-> first]
HideLoading == [action |-> "HIDE_LOADING", content |-> <<>>, isFirst |-> FALSE]
ShowError == [action |-> "SHOW_ERROR", content |-> <<>>, isFirst |-> FALSE]

\* The locals of one processStream call.
NewLocals ==
  [isFirst |-> TRUE, collectedContent |-> <<>>, buffer |-> <<>>,
   out |-> <<>>, threw |-> FALSE]

\* A mutant of Emit: isFirst is not cleared after a broadcast.
EmitKeepFirst(st, ev) ==
  IF st.threw THEN st
  ELSE IF ev.kind = "throw" THEN [st EXCEPT !.threw = TRUE]
  ELSE IF ev.kind = "skip" THEN st
  ELSE [st EXCEPT !.collectedContent = @ \o ev.content,
                  !.out = Append(@, StreamContent(ev.content, st.isFirst))]

\* A mutant of Emit: collectedContent = content.
EmitLastOnly(st, ev) ==
  IF st.threw THEN st
  ELSE IF ev.kind = "throw" THEN [st EXCEPT !.threw = TRUE]
  ELSE IF ev.kind = "skip" THEN st
  ELSE [st EXCEPT !.collectedContent = ev.content,
                  !.out = Append(@, StreamContent(ev.content, st.isFirst)),
                  !.isFirst = FALSE]

\* collectedContent += content; broadcastToAgentTabs(...); isFirst = false.
\* `out` lists the messages handed to broadcastToAgentTabs by this run.
Emit(st, ev) ==
  IF st.threw THEN st
  ELSE IF ev.kind = "throw" THEN [st EXCEPT !.threw = TRUE]
  ELSE IF ev.kind = "skip" THEN st
  ELSE [st EXCEPT !.collectedContent = @ \o ev.content,
                  !.out = Append(@, StreamContent(ev.content, st.isFirst)),
                  !.isFirst = FALSE]

RECURSIVE ProcessLines(_, _)
ProcessLines(st, lines) ==
  IF lines = <<>> THEN st
  ELSE ProcessLines(Emit(st, LineEvent(Head(lines))), Tail(lines))

\* A mutant of HoldBack: the fragment after the last newline is dropped.
HoldBackNothing(lines) == <<>>

\* buffer = lines.pop() || ''
HoldBack(lines) == lines[Len(lines)]

\* One turn of the read loop on a chunk: decode, split, hold back, emit.
\* (`lines` is bound as a function argument so that it is computed once.)
OnChunk(st, value) ==
  LET buffer == st.buffer \o decode(value)
      Turn[lines \in {split(buffer)}] ==
        ProcessLines([st EXCEPT !.buffer = HoldBack(lines), !.out = <<>>],
                     SubSeq(lines, 1, Len(lines) - 1))
  IN Turn[split(buffer)]

\* The read loop's turn on { done: true }.
OnDone(st) == Emit([st EXCEPT !.out = <<>>], FinalEvent(st.buffer))

(***************************************************************************)
(* State.  MessageRouter.activePanelTabs is left out: it is written by the *)
(* JOIN_PANEL, LEAVE_PANEL, ANALYZE_PAGE and CHAT_MESSAGE handlers and     *)
(* read by CHECK_STATUS alone.                                             *)
(***************************************************************************)
VARIABLES
  activeStreams,     \* StreamHandler.activeStreams: agentId -> reader
  activeStreamTabs,  \* StreamHandler.activeStreamTabs: agentId -> Set of tabs
  openTabs,          \* the tabs of the browser: chrome.tabs.get(t) resolves
  reader,            \* the ReadableStream readers of the streaming responses
  proc,              \* the processStream call made on each reader
  pending,           \* broadcast callbacks suspended in `await chrome.tabs.get`
  delivered,         \* per tab, the STREAM_CONTENT given to tabs.sendMessage
  tabLog             \* per tab, history of its subscription (observation only)

streamVars ==
  <<activeStreams, activeStreamTabs, openTabs, reader, proc, pending,
    delivered, tabLog>>

VARIABLES
  switching,         \* SWITCH_AGENT requests suspended in setActiveAgent
  streamCheck        \* how the last checkOrphanedStreams ended (observation)

VARIABLES
  requests,          \* the ANALYZE_PAGE and CHAT_MESSAGE requests, by id
  now                \* the time of the timers, in milliseconds

requestVars == <<requests, now>>

VARIABLES
  apiFetch,          \* one ApiClient.fetch call and the HTTP attempts it made
  agentManager,      \* the AgentManager: its fields and its initialize() call
  mcp,               \* the MCPConnector: pendingRequests and the requests sent
  conversations      \* the ConversationManager, the stored history, its calls

serviceVars == <<apiFetch, agentManager, mcp, conversations>>

routerVars == <<switching, streamCheck, requestVars, serviceVars>>

IdleReader == [agent |-> "A", state |-> "unused", src |-> <<>>, consumed |-> <<>>]
IdleProc ==
  [pc |-> "idle", st |-> NewLocals, msgs |-> <<>>, text |-> <<>>,
   cutInChar |-> FALSE, splitLine |-> FALSE]
\* last: the last event that changed the tab's subscriptions ("added" by
\* JOIN_PANEL or registerStream, or the event that removed it); was: after a
\* removal, the agents it was subscribed to before; late, mark: the stream that
\* was in flight with accumulated content when JOIN_PANEL last added it, and
\* Len(delivered) at that moment
NewTabLog == [last |-> "none", was |-> {}, late |-> NoStream, mark |-> 0]

StreamInit ==
  /\ activeStreams = [a \in Agents |-> NoStream]
  /\ activeStreamTabs = [a \in Agents |-> {}]
  /\ openTabs = Tabs
  /\ reader = [r \in Readers |-> IdleReader]
  /\ proc = [r \in Readers |-> IdleProc]
  /\ pending = {}
  /\ delivered = [t \in Tabs |-> <<>>]
  /\ tabLog = [t \in Tabs |-> NewTabLog]

UsedReaders == {r \in Readers : reader[r].state # "unused"}
\* response.body.getReader(): a reader no earlier request has used
NewReader == Cardinality(UsedReaders) + 1

SubscribedTo(tabId) == {a \in Agents : tabId \in activeStreamTabs[a]}

LogAdded(tabId, agentId, late) ==
  IF tabId \in activeStreamTabs[agentId] THEN tabLog
  ELSE [tabLog EXCEPT ![tabId].last = "added", ![tabId].was = {},
          ![tabId].late = late,
          ![tabId].mark = IF late = NoStream THEN 0 ELSE Len(delivered[tabId])]

LogRemoved(tabId, from, event) ==
  IF from = {} THEN tabLog
  ELSE [tabLog EXCEPT ![tabId].last = event, ![tabId].was = from,
                      ![tabId].late = NoStream, ![tabId].mark = 0]

(***************************************************************************)
(* StreamHandler.                                                          *)
(***************************************************************************)
\* addTabToAgentStream(agentId, tabId)
addTabToAgentStream(tabsOf, agentId, tabId) ==
  [tabsOf EXCEPT ![agentId] = @ \cup {tabId}]

\* A mutant of removeTabFromAllStreams: the loop stops at the first set that
\* held the tab.
removeTabFromFirstStream(tabsOf, tabId) ==
  IF \A a \in Agents : tabId \notin tabsOf[a] THEN tabsOf
  ELSE LET first == CHOOSE a \in Agents : tabId \in tabsOf[a]
       IN [tabsOf EXCEPT ![first] = @ \ {tabId}]

\* A mutant of removeTabFromAllStreams: tabs.clear() for tabs.delete(tabId).
removeEveryTab(tabsOf, tabId) == [a \in Agents |-> {}]

\* removeTabFromAllStreams(tabId)
removeTabFromAllStreams(tabsOf, tabId) ==
  [a \in Agents |-> tabsOf[a] \ {tabId}]

\* A mutant of CancelExisting: the previous reader is replaced, not cancelled.
CancelNothing(readers, existingStream) == readers

\* registerStream: existingStream.cancel() when the agent has an entry.
\* cancel() closes the stream; a pending read() then resolves { done: true }.
CancelExisting(readers, existingStream) ==
  IF existingStream # NoStream /\ readers[existingStream].state = "open"
    THEN [readers EXCEPT ![existingStream].state = "cancelled"]
    ELSE readers

\* The callback of broadcastToAgentTabs for one subscriber tab and the message
\* msgs[idx] of reader r, suspended in `await chrome.tabs.get(tabId)`.
Task(tabId, agentId, r, idx) ==
  [tab |-> tabId, agent |-> agentId, reader |-> r, idx |-> idx]

\* broadcastToAgentTabs(agentId, message) for the messages msgs[from..to]
BroadcastTasks(agentId, r, from, to) ==
  {Task(t, agentId, r, i) : t \in activeStreamTabs[agentId], i \in from..to}

\* A mutant of FinallyStreams: the finally block leaves the entry in the map.
FinallyKeepsEntry(streams, agentId) == streams

\* finally { ...; this.activeStreams.delete(agentId) }
FinallyStreams(streams, agentId) == [streams EXCEPT ![agentId] = NoStream]

\* finally { this.broadcastToAgentTabs(agentId, { action: 'HIDE_LOADING' }) }
FinallyMessages == <<HideLoading>>

\* catch (error) { this.broadcastToAgentTabs(agentId, SHOW_ERROR); throw error }
CatchMessages(failed) == IF failed THEN <<ShowError>> ELSE <<>>

\* api.js sendChatMessage, from the resolved fetch of a streaming response to
\* processStream's first `await streamReader.read()`:
\* registerStream(agentId, streamReader, tabId); processStream(agentId).
SendChatStream(agentId, tabId, body) ==
  LET r == NewReader
      existingStream == activeStreams[agentId]
  IN /\ r \in Readers
     /\ reader' = [CancelExisting(reader, existingStream) EXCEPT
                     ![r] = [agent |-> agentId, state |-> "open",
                             src |-> body, consumed |-> <<>>]]
     /\ activeStreams' = [activeStreams EXCEPT ![agentId] = r]
     /\ activeStreamTabs' = addTabToAgentStream(activeStreamTabs, agentId, tabId)
     /\ proc' = [proc EXCEPT ![r].pc = "reading"]
     /\ tabLog' = LogAdded(tabId, agentId, NoStream)
     /\ UNCHANGED <<openTabs, pending, delivered>>

\* processStream leaves the loop: catch (when failed), finally, return/throw.
EndStream(r, st, failed, readerState) ==
  LET agentId == reader[r].agent
      out == st.out \o CatchMessages(failed) \o FinallyMessages
      n == Len(proc[r].msgs)
  IN /\ proc' = [proc EXCEPT ![r].pc = IF failed THEN "failed" ELSE "done",
                             ![r].st = [st EXCEPT !.out = <<>>],
                             ![r].msgs = @ \o out]
     /\ pending' = pending \cup BroadcastTasks(agentId, r, n + 1, n + Len(out))
     /\ activeStreams' = FinallyStreams(activeStreams, agentId)
     /\ reader' = [reader EXCEPT ![r].state = readerState]
     /\ UNCHANGED <<activeStreamTabs, openTabs, delivered, tabLog>>

\* A mutant of ReadChunk: the loop goes on once the callbacks of the earlier
\* broadcasts have finished.
ReadChunkAwaitsBroadcasts(r, n) ==
  /\ proc[r].pc = "reading"
  /\ reader[r].state = "open"
  /\ n \in 1..Len(reader[r].src)
  /\ pending = {}
  /\ LET value == SubSeq(reader[r].src, 1, n)
         rest == SubSeq(reader[r].src, n + 1, Len(reader[r].src))
         st == OnChunk(proc[r].st, value)
         k == Len(proc[r].msgs)
     IN /\ reader' = [reader EXCEPT ![r].src = rest, ![r].consumed = @ \o value]
        /\ proc' = [proc EXCEPT
             ![r].st = [st EXCEPT !.out = <<>>],
             ![r].msgs = @ \o st.out,
             ![r].text = @ \o decode(value)]
        /\ pending' = pending \cup
             BroadcastTasks(reader[r].agent, r, k + 1, k + Len(st.out))
        /\ UNCHANGED <<activeStreams, activeStreamTabs, openTabs,
                       delivered, tabLog>>

\* `await streamReader.read()` resolves with a chunk of n bytes.
ReadChunk(r, n) ==
  /\ proc[r].pc = "reading"
  /\ reader[r].state = "open"
  /\ n \in 1..Len(reader[r].src)
  /\ LET value == SubSeq(reader[r].src, 1, n)
         rest == SubSeq(reader[r].src, n + 1, Len(reader[r].src))
         st == OnChunk(proc[r].st, value)
         k == Len(proc[r].msgs)
     IN IF st.threw
          THEN EndStream(r, st, TRUE, "open")
          ELSE /\ reader' = [reader EXCEPT ![r].src = rest,
                                           ![r].consumed = @ \o value]
               /\ proc' = [proc EXCEPT
                    ![r].st = [st EXCEPT !.out = <<>>],
                    ![r].msgs = @ \o st.out,
                    ![r].text = @ \o decode(value),
                    ![r].cutInChar = @ \/ value[n] = Lead,
                    ![r].splitLine =
                       @ \/ (st.buffer # <<>> /\ rest # <<>> /\ rest[1] # NL)]
               /\ pending' = pending \cup
                    BroadcastTasks(reader[r].agent, r, k + 1, k + Len(st.out))
               /\ UNCHANGED <<activeStreams, activeStreamTabs, openTabs,
                              delivered, tabLog>>

\* `await streamReader.read()` resolves { done: true }: the body has ended, or
\* the reader was cancelled by a later registerStream.
ReadDone(r) ==
  /\ proc[r].pc = "reading"
  /\ \/ reader[r].state = "cancelled"
     \/ reader[r].state = "open" /\ reader[r].src = <<>>
  /\ LET st == OnDone(proc[r].st)
     IN EndStream(r, st, st.threw,
                  IF reader[r].state = "open" THEN "closed" ELSE "cancelled")

\* `await streamReader.read()` rejects: the connection failed.
ReadError(r) ==
  /\ proc[r].pc = "reading"
  /\ reader[r].state = "open"
  /\ EndStream(r, [proc[r].st EXCEPT !.out = <<>>], TRUE, "errored")

\* `await streamReader.read()` rejects with an AbortError: the transport was
\* aborted.  The catch block does not look at the error.
ReadAborted(r) ==
  /\ proc[r].pc = "reading"
  /\ reader[r].state = "open"
  /\ EndStream(r, [proc[r].st EXCEPT !.out = <<>>], TRUE, "aborted")

\* a callback of broadcastToAgentTabs suspended in `await chrome.tabs.get`
AwaitsTabGet(task) == "error" \notin DOMAIN task

\* A broadcast callback resumes after `await chrome.tabs.get(tabId)`: the tab is
\* gone (tabs.delete(tabId)) or the message goes to chrome.tabs.sendMessage.
TabGetSettles(task) ==
  /\ task \in pending
  /\ AwaitsTabGet(task)
  /\ pending' = pending \ {task}
  /\ IF task.tab \in openTabs
       THEN /\ delivered' = [delivered EXCEPT ![task.tab] =
                 IF proc[task.reader].msgs[task.idx].action = "STREAM_CONTENT"
                   THEN Append(@, [reader |-> task.reader, idx |-> task.idx])
                   ELSE @]
            /\ UNCHANGED <<activeStreamTabs, tabLog>>
       ELSE /\ activeStreamTabs' =
                 [activeStreamTabs EXCEPT ![task.agent] = @ \ {task.tab}]
            /\ tabLog' = LogRemoved(task.tab, SubscribedTo(task.tab) \cap {task.agent},
                                    "pruned")
            /\ UNCHANGED delivered
  /\ UNCHANGED <<activeStreams, openTabs, reader, proc>>

\* error messages of a rejected chrome.tabs.sendMessage, as their sentences
NoReceiver ==
  <<"Could not establish connection", "Receiving end does not exist">>
PortClosed == <<"The message port closed before a response was received">>
SendErrors == {NoReceiver, PortClosed}

\* error.message.includes(phrase)
includes(message, phrase) == \E i \in 1..Len(message) : message[i] = phrase

\* A mutant of IsUnreachable: every failed send counts as a broken connection.
AnySendError(message) == TRUE

\* the condition under which the rejection handler removes the tab
IsUnreachable(message) ==
  \/ includes(message, "Could not establish connection")
  \/ includes(message, "receiving end does not exist")

\* the rejection handler of a chrome.tabs.sendMessage that failed with `error`,
\* not run yet
RejectedSend(task, error) ==
  [tab |-> task.tab, agent |-> task.agent, reader |-> task.reader,
   idx |-> task.idx, error |-> error]

\* A broadcast callback resumes after `await chrome.tabs.get(tabId)` for a tab
\* that exists, and its chrome.tabs.sendMessage is going to reject with `error`.
SendFails(task, error) ==
  /\ task \in pending
  /\ AwaitsTabGet(task)
  /\ task.tab \in openTabs
  /\ pending' = (pending \ {task}) \cup {RejectedSend(task, error)}
  /\ UNCHANGED <<activeStreams, activeStreamTabs, openTabs, reader, proc,
                 delivered, tabLog>>

\* The .catch callback of chrome.tabs.sendMessage runs.
SendRejected(send) ==
  /\ send \in pending
  /\ ~AwaitsTabGet(send)
  /\ pending' = pending \ {send}
  /\ IF IsUnreachable(send.error)
       THEN /\ activeStreamTabs' =
                 [activeStreamTabs EXCEPT ![send.agent] = @ \ {send.tab}]
            /\ tabLog' = LogRemoved(send.tab, SubscribedTo(send.tab) \cap {send.agent},
                                    "pruned")
       ELSE UNCHANGED <<activeStreamTabs, tabLog>>
  /\ UNCHANGED <<activeStreams, openTabs, reader, proc, delivered>>

(***************************************************************************)
(* MessageRouter and the tab listeners of BackgroundApp.                   *)
(***************************************************************************)
\* The stream of agentId that is in flight with content accumulated, if any.
MidFlight(agentId) ==
  LET r == activeStreams[agentId] IN
  IF r # NoStream /\ proc[r].st.collectedContent # <<>> THEN r ELSE NoStream

\* handleJoinPanel: JOIN_PANEL from tab tabId for agent agentId
handleJoinPanel(tabId, agentId) ==
  /\ tabId \in openTabs
  /\ activeStreamTabs' = addTabToAgentStream(activeStreamTabs, agentId, tabId)
  /\ tabLog' = LogAdded(tabId, agentId, MidFlight(agentId))
  /\ UNCHANGED <<activeStreams, openTabs, reader, proc, pending, delivered>>

\* handleLeavePanel: LEAVE_PANEL from tab tabId
handleLeavePanel(tabId) ==
  /\ tabId \in openTabs
  /\ activeStreamTabs' = removeTabFromAllStreams(activeStreamTabs, tabId)
  /\ tabLog' = LogRemoved(tabId, SubscribedTo(tabId), "LEAVE_PANEL")
  /\ UNCHANGED <<activeStreams, openTabs, reader, proc, pending, delivered>>

\* chrome.tabs.onRemoved listener
onRemoved(tabId) ==
  /\ tabId \in openTabs
  /\ openTabs' = openTabs \ {tabId}
  /\ activeStreamTabs' = removeTabFromAllStreams(activeStreamTabs, tabId)
  /\ tabLog' = LogRemoved(tabId, SubscribedTo(tabId), "removed")
  /\ UNCHANGED <<activeStreams, reader, proc, pending, delivered>>

\* chrome.tabs.onUpdated listener, changeInfo.status === 'loading'
onUpdatedLoading(tabId) ==
  /\ tabId \in openTabs
  /\ activeStreamTabs' = removeTabFromAllStreams(activeStreamTabs, tabId)
  /\ tabLog' = LogRemoved(tabId, SubscribedTo(tabId), "loading")
  /\ UNCHANGED <<activeStreams, openTabs, reader, proc, pending, delivered>>

\* an agent id that AgentManager.getAgent does not find
UnknownAgent == "Z"

\* handleSwitchAgent: SWITCH_AGENT from tab tabId for agentId, up to the await
\* in setActiveAgent (saveAgents), or to its resolution with null
handleSwitchAgent(tabId, agentId) ==
  /\ tabId \in openTabs
  /\ switching' = switching \cup
                    {[tab |-> tabId, agent |-> agentId, found |-> agentId \in Agents]}
  /\ UNCHANGED <<streamVars, streamCheck, requestVars, serviceVars>>

\* the .then callback of handleSwitchAgent: addTabToAgentStream(agent.id, tab.id)
SwitchSubscribe(tabsOf, agentId, tabId) ==
  addTabToAgentStream(tabsOf, agentId, tabId)

\* setActiveAgent settles: with the agent (saved), with null, or rejected
setActiveAgentSettles(request, saved) ==
  /\ request \in switching
  /\ switching' = switching \ {request}
  /\ IF request.found /\ saved
       THEN /\ activeStreamTabs' =
                 SwitchSubscribe(activeStreamTabs, request.agent, request.tab)
            /\ tabLog' = LogAdded(request.tab, request.agent, MidFlight(request.agent))
       ELSE UNCHANGED <<activeStreamTabs, tabLog>>
  /\ UNCHANGED <<activeStreams, openTabs, reader, proc, pending, delivered,
                 streamCheck, requestVars, serviceVars>>

\* the methods of class StreamHandler
StreamHandlerMethods ==
  {"addTabToAgentStream", "removeTabFromAllStreams", "registerStream",
   "broadcastToAgentTabs", "broadcastToAllTabs", "processStream"}

\* this.streamHandler.method(...) throws a TypeError: method is not a function
NotAFunction(method) == method \notin StreamHandlerMethods

\* checkOrphanedStreams, on the streamCheck alarm.  With a stream registered
\* the first statement of its loop calls getActiveTabCount, which StreamHandler
\* does not define: the TypeError is caught and logged by the outer catch.
checkOrphanedStreams ==
  /\ streamCheck' =
       IF \A a \in Agents : activeStreams[a] = NoStream THEN "idle"
       ELSE IF NotAFunction("getActiveTabCount") THEN "TypeError"
       ELSE "checked"
  /\ UNCHANGED <<streamVars, switching, requestVars, serviceVars>>

(***************************************************************************)
(* The overall timeout of ANALYZE_PAGE and CHAT_MESSAGE: Promise.race of   *)
(* api.sendChatMessage and a timer.  A fulfilment or rejection and the     *)
(* reactions chained on it run as microtasks of one task, so each of the   *)
(* actions below is the task of one settlement.  MessageRouter's            *)
(* activePanelTabs, which only status reports read, is not in the state.   *)
(***************************************************************************)
RequestIds == {1, 2}
RequestActions == {"ANALYZE_PAGE", "CHAT_MESSAGE"}

\* sender.tab?.id of a message that does not come from a tab
NoTab == 0

AnalyzeTimeout == 90000
ChatTimeout == 900000

\* the delay of the setTimeout in the handler of the action
Timeout(action) ==
  IF action = "ANALYZE_PAGE" THEN AnalyzeTimeout ELSE ChatTimeout

\* how far the clock runs, in steps of the shorter delay
MaxTicks == 11

TimedOut == <<"Operation timed out - the request took too long to complete. Please try again.">>
NoTabId == <<"No tab ID available">>
ApiError == <<"API request failed">>
ReloadNeeded == <<"The extension needs to be reloaded. Please refresh the page and try again.">>

Failure(error) == [success |-> FALSE, error |-> error]
Success == [success |-> TRUE, error |-> <<>>]

\* what api.sendChatMessage resolves with; it catches every error
OperationResults == {Success, Failure(ApiError)}

NoRequest ==
  [action |-> "none", tabId |-> NoTab, start |-> 0, operation |-> "none",
   timer |-> "none", race |-> "none", responses |-> <<>>, keepOpen |-> FALSE]

\* the .then and .catch reactions of the race: the argument of sendResponse
ThenResponse(response) == response
CatchResponse(error) ==
  IF \/ includes(error, "Extension context invalidated")
     \/ includes(error, "Could not establish connection")
  THEN Failure(ReloadNeeded)
  ELSE Failure(error)

\* A mutant of Race: a promise that settles each time one of its inputs does.
RaceOfAll(r, how, value) ==
  [r EXCEPT !.race = how,
            !.responses =
              Append(@, IF how = "fulfilled" THEN ThenResponse(value)
                        ELSE CatchResponse(value))]

\* Promise.race: the first settlement of an input settles the race and runs
\* the reaction chained on it; a later one finds it settled
Race(r, how, value) ==
  IF r.race # "pending" THEN r
  ELSE [r EXCEPT !.race = how,
                 !.responses =
                   Append(@, IF how = "fulfilled" THEN ThenResponse(value)
                             ELSE CatchResponse(value))]

\* handleAnalyzePage / handleChatMessage, up to their return
handleRequest(id, action, tabId) ==
  /\ requests[id].action = "none"
  /\ requests' =
       [requests EXCEPT ![id] =
          IF tabId = NoTab
          THEN [NoRequest EXCEPT !.action = action,
                                 !.responses = <<Failure(NoTabId)>>]
          ELSE [action |-> action, tabId |-> tabId, start |-> now,
                operation |-> "pending", timer |-> "armed", race |-> "pending",
                responses |-> <<>>, keepOpen |-> TRUE]]
  /\ UNCHANGED <<streamVars, switching, streamCheck, now, serviceVars>>

\* api.sendChatMessage resolves, before or after the timer
OperationSettles(id, result) ==
  /\ requests[id].operation = "pending"
  /\ requests' =
       [requests EXCEPT ![id] =
          Race([@ EXCEPT !.operation = "resolved"], "fulfilled", result)]
  /\ UNCHANGED <<streamVars, switching, streamCheck, now, serviceVars>>

\* the callback of setTimeout runs, not before its delay has passed
TimerFires(id) ==
  /\ requests[id].timer = "armed"
  /\ now >= requests[id].start + Timeout(requests[id].action)
  /\ requests' =
       [requests EXCEPT ![id] =
          Race([@ EXCEPT !.timer = "fired"], "rejected", TimedOut)]
  /\ UNCHANGED <<streamVars, switching, streamCheck, now, serviceVars>>

\* time passes
Tick ==
  /\ now < MaxTicks * AnalyzeTimeout
  /\ now' = now + AnalyzeTimeout
  /\ UNCHANGED <<streamVars, switching, streamCheck, requests, serviceVars>>

(***************************************************************************)
(* ApiClient.fetch (the bundled client): one call, its HTTP attempts and    *)
(* the retries it makes by calling itself with retryCount + 1.  The inner  *)
(* call is returned without await, so its rejection passes the catch block *)
(* of the outer one.                                                       *)
(***************************************************************************)
maxRetries == 3

\* response.status of an attempt that got a response
Statuses == {200, 404, 500, 503}
\* what the platform fetch rejects with, and an error of another kind
FailedToFetch == [name |-> "TypeError", message |-> <<"Failed to fetch">>]
AbortError == [name |-> "AbortError", message |-> <<"The user aborted a request">>]
OtherError == [name |-> "Error", message |-> <<"Invalid URL">>]
FetchErrors == {FailedToFetch, AbortError, OtherError}

\* new Error(`API request failed: ${response.status} ...`)
RequestFailed(status) ==
  [name |-> "Error", message |-> <<"API request failed">>, status |-> status]
Unreachable ==
  [name |-> "Error", message |-> <<"Unable to reach the API server">>]

\* response.ok
responseOk(status) == status >= 200 /\ status <= 299

isNetworkError(error) ==
  \/ error.name = "TypeError"
  \/ includes(error.message, "Failed to fetch")
  \/ includes(error.message, "Network request failed")
  \/ error.name = "AbortError"

NoFetch ==
  [pc |-> "idle", isStreaming |-> FALSE, retryCount |-> 0, issued |-> 0,
   log |-> <<>>, error |-> <<>>]

\* setTimeout(resolve, delay); return this.fetch(path, options, retryCount + 1)
Retry(f) == [f EXCEPT !.pc = "backoff"]

\* A mutant of FetchCatch: a network error is retried whatever the body asks.
FetchCatchRetriesStreams(f, error) ==
  IF isNetworkError(error) /\ f.retryCount < maxRetries
  THEN Retry(f)
  ELSE [f EXCEPT !.pc = "rejected",
                 !.error = IF isNetworkError(error) THEN <<Unreachable>>
                           ELSE <<error>>]

\* the catch block of fetch
FetchCatch(f, error) ==
  IF isNetworkError(error) /\ ~f.isStreaming /\ f.retryCount < maxRetries
  THEN Retry(f)
  ELSE [f EXCEPT !.pc = "rejected",
                 !.error = IF isNetworkError(error) THEN <<Unreachable>>
                           ELSE <<error>>]

\* the try block of fetch after `await fetch(url, requestOptions)` resolved
FetchTry(f, status) ==
  IF responseOk(status) THEN [f EXCEPT !.pc = "resolved"]
  ELSE IF f.isStreaming THEN FetchCatch(f, RequestFailed(status))
  ELSE IF status >= 500 /\ f.retryCount < maxRetries THEN Retry(f)
  ELSE FetchCatch(f, RequestFailed(status))

\* this.fetch(path, options): up to the await of the first HTTP attempt;
\* isStreaming: options.body includes '"stream":true'
ApiFetch(isStreaming) ==
  /\ apiFetch.pc \in {"idle", "resolved", "rejected"}
  /\ apiFetch' = [NoFetch EXCEPT !.pc = "fetching", !.isStreaming = isStreaming,
                                 !.issued = 1]

\* the attempt gets a response
HttpResponds(status) ==
  /\ apiFetch.pc = "fetching"
  /\ apiFetch' = FetchTry([apiFetch EXCEPT !.log = Append(@, <<"status", status>>)],
                          status)

\* the attempt rejects
HttpFails(error) ==
  /\ apiFetch.pc = "fetching"
  /\ apiFetch' = FetchCatch([apiFetch EXCEPT !.log = Append(@, <<"error", error>>)],
                            error)

\* the backoff delay has passed: the inner call issues the next attempt
BackoffElapses ==
  /\ apiFetch.pc = "backoff"
  /\ apiFetch' = [apiFetch EXCEPT !.pc = "fetching", !.retryCount = @ + 1,
                                  !.issued = @ + 1]

(***************************************************************************)
(* AgentManager.  An agent is its id and what tells agents apart in what   *)
(* follows: whether createDefaultAgent made it, whether updateAgent has    *)
(* changed it.  Ids are 'agent_' + Date.now(), or come from the caller's   *)
(* config or updates, so two agents may have the same id.  Every method    *)
(* changes the fields before its await of saveAgents, which changes none.  *)
(***************************************************************************)
AgentIds == {"A", "B", "C"}
Null == "null"

\* the longest agent list addAgent is called on
MaxAgents == 3

Agent(id, isDefault) == [id |-> id, isDefault |-> isDefault, updated |-> FALSE]

\* createDefaultAgent(), at a time that gives the id
createDefaultAgent(id) == Agent(id, TRUE)

\* the lists chrome.storage may hold under 'agents'
StoredAgents ==
  {<<>>} \cup {<<Agent(id, FALSE)>> : id \in AgentIds}
         \cup {<<Agent(x, FALSE), Agent(y, FALSE)>> : x, y \in AgentIds}

NewAgentManager ==
  [agents |-> <<>>, activeAgentId |-> Null, initialized |-> FALSE,
   pc |-> "new", removed |-> "none"]

\* this.agents.find(a => a.id === id): its index, 0 when there is none
findIndex(agents, id) ==
  IF \E i \in DOMAIN agents : agents[i].id = id
  THEN CHOOSE i \in DOMAIN agents :
         agents[i].id = id /\ \A j \in DOMAIN agents : agents[j].id = id => i <= j
  ELSE 0

\* A mutant of getActiveAgent: find(...) without `|| this.agents[0]`.
getActiveAgentOrNone(m) == findIndex(m.agents, m.activeAgentId)

\* getActiveAgent(): the index of the agent it returns, 0 for undefined
getActiveAgent(m) ==
  IF findIndex(m.agents, m.activeAgentId) # 0
  THEN findIndex(m.agents, m.activeAgentId)
  ELSE IF m.agents # <<>> THEN 1 ELSE 0

\* this.agents.filter(a => a.id !== agentId)
filter(agents, agentId) == SelectSeq(agents, LAMBDA a : a.id # agentId)

\* if (this.agents.length === 0) this.agents.push(this.createDefaultAgent())
KeepOneAgent(agents, id) ==
  IF Len(agents) = 0 THEN <<createDefaultAgent(id)>> ELSE agents

\* initialize() up to `await this.storage.get`
initialize ==
  /\ ~agentManager.initialized
  /\ agentManager.pc = "new"
  /\ agentManager' = [agentManager EXCEPT !.pc = "get"]

\* storage.get resolves with data; initialize goes on to `await saveAgents()`
storageGetResolves(agents, activeAgentId, id) ==
  /\ agentManager.pc = "get"
  /\ LET list == IF Len(agents) > 0 THEN agents ELSE <<createDefaultAgent(id)>>
     IN agentManager' =
          [agentManager EXCEPT
             !.agents = list,
             !.activeAgentId = IF activeAgentId # Null THEN activeAgentId
                               ELSE list[1].id,
             !.pc = "save"]

\* storage.get rejects: initialize rejects
storageGetRejects ==
  /\ agentManager.pc = "get"
  /\ agentManager' = [agentManager EXCEPT !.pc = "new"]

\* the saveAgents of initialize settles
initializeSaved(saved) ==
  /\ agentManager.pc = "save"
  /\ agentManager' =
       IF saved THEN [agentManager EXCEPT !.initialized = TRUE, !.pc = "done"]
       ELSE [agentManager EXCEPT !.pc = "new"]

\* addAgent(config) up to its await; id: Date.now() or config.id
addAgent(id) ==
  /\ Len(agentManager.agents) < MaxAgents
  /\ agentManager' =
       [agentManager EXCEPT !.agents = Append(@, Agent(id, FALSE))]

\* updateAgent(agentId, updates) up to its await; newId: updates.id, or the
\* agent's own id when updates has none
updateAgent(agentId, newId) ==
  LET index == findIndex(agentManager.agents, agentId)
  IN /\ index # 0
     /\ agentManager' =
          [agentManager EXCEPT !.agents[index].id = newId,
                               !.agents[index].updated = TRUE]

\* removeAgent(agentId) up to its await, and the value it is to return;
\* id: the Date.now() of a default agent
removeAgent(agentId, id) ==
  LET previousLength == Len(agentManager.agents)
      agents == KeepOneAgent(filter(agentManager.agents, agentId), id)
  IN agentManager' =
       [agentManager EXCEPT
          !.agents = agents,
          !.activeAgentId = IF @ = agentId THEN agents[1].id ELSE @,
          !.removed = IF previousLength # Len(agents) THEN "true" ELSE "false"]

\* setActiveAgent(agentId) up to its await, for an agent that exists; for
\* another id it returns null
setActiveAgent(agentId) ==
  /\ findIndex(agentManager.agents, agentId) # 0
  /\ agentManager' = [agentManager EXCEPT !.activeAgentId = agentId]

(***************************************************************************)
(* MCPConnector.sendRequest for requests with an id, on a connector whose  *)
(* postEndpoint is set.  The promise of a request is settled by the SSE    *)
(* message handler or by the 30 s timer, each only while the request is in *)
(* pendingRequests; the rejection handler of the POST settles it only for  *)
(* a request without id.                                                   *)
(***************************************************************************)
\* how many requests getNextId numbers
MaxRequests == 2

RequestNumbers == 1..MaxRequests

NotSent == [promise |-> "none", post |-> "none", timer |-> "none"]

NewConnector ==
  [requestId |-> 0, pendingRequests |-> {},
   sent |-> [id \in RequestNumbers |-> NotSent]]

\* executeTool: sendRequest({ id: this.getNextId(), method: 'tools/call' }) up
\* to the return of the promise: entry stored, timer set, POST started
sendRequest ==
  /\ mcp.requestId < MaxRequests
  /\ LET requestId == mcp.requestId + 1
     IN mcp' = [mcp EXCEPT
                  !.requestId = requestId,
                  !.pendingRequests = @ \cup {requestId},
                  !.sent[requestId] =
                     [promise |-> "pending", post |-> "sent", timer |-> "set"]]

\* handleMessage: an SSE message whose data.id is id
handleMessage(id) ==
  /\ mcp.sent[id].promise # "none"
  /\ mcp' = IF id \in mcp.pendingRequests
            THEN [mcp EXCEPT !.pendingRequests = @ \ {id},
                             !.sent[id].promise = "resolved"]
            ELSE mcp

\* the callback of the 30 s timer of request id
RequestTimeout(id) ==
  /\ mcp.sent[id].timer = "set"
  /\ mcp' = IF id \in mcp.pendingRequests
            THEN [mcp EXCEPT !.pendingRequests = @ \ {id},
                             !.sent[id].timer = "fired",
                             !.sent[id].promise =
                                IF @ = "pending" THEN "rejected" ELSE @]
            ELSE [mcp EXCEPT !.sent[id].timer = "fired"]

\* the POST of request id settles: .then for a response, .catch for a
\* response that is not ok or a network error
PostSettles(id, posted) ==
  /\ mcp.sent[id].post = "sent"
  /\ mcp' = IF posted
            THEN [mcp EXCEPT !.sent[id].post = "ok"]
            ELSE [mcp EXCEPT !.sent[id].post = "failed",
                             !.pendingRequests = @ \ {id}]

\* disconnect(): this.pendingRequests.clear()
disconnect ==
  /\ mcp.pendingRequests # {}
  /\ mcp' = [mcp EXCEPT !.pendingRequests = {}]

(***************************************************************************)
(* ConversationManager: getConversationMessages and storeMessage over the  *)
(* messageHistory of chrome.storage.local.  Every action is the code       *)
(* between two awaits of one call; a storage request takes effect in the   *)
(* step its promise settles in, so requests are served one at a time and   *)
(* answered in the order they are served.                                  *)
(***************************************************************************)
\* updatedHistory.slice(-500)
HistoryLimit == 500

\* how many calls may be in flight at once
MaxCalls == 2
\* how many entries storeMessage calls may make
MaxStores == 2

Calls == 1..MaxCalls

\* the conversations the calls are about, and one they are not about
ConversationIds == {"X", "Y"}
OtherConversation == "Z"

HistoryEntry(conversationId, timestamp, message, response) ==
  [conversationId |-> conversationId, timestamp |-> timestamp,
   message |-> message, response |-> response]

\* a history at the limit of 500 entries: the oldest of conversation Y, the
\* others of a conversation no call is about
FullHistory ==
  [i \in 1..HistoryLimit |->
     HistoryEntry(IF i = 1 THEN "Y" ELSE OtherConversation, 0, 0, TRUE)]

\* what chrome.storage.local may hold when the service worker starts
StoredHistories ==
  {<<>>, <<HistoryEntry("Y", 0, 0, TRUE)>>, FullHistory}

NoCall ==
  [op |-> "none", conversationId |-> "X", pc |-> "done",
   historyEntry |-> <<>>, trimmedHistory |-> <<>>]

NewConversationManager(messageHistory) ==
  [messageHistory |-> messageHistory, lastMessage |-> <<>>,
   conversationCache |-> <<>>,
   calls |-> [c \in Calls |-> NoCall], clock |-> 0, stores |-> 0]

\* this.conversationCache, a Map: a function on the ids it has
has(cache, conversationId) == conversationId \in DOMAIN cache

set(cache, conversationId, messages) ==
  [id \in DOMAIN cache \cup {conversationId} |->
     IF id = conversationId THEN messages ELSE cache[id]]

delete(cache, conversationId) ==
  [id \in DOMAIN cache \ {conversationId} |-> cache[id]]

ChatMessage(role, msg) ==
  [role |-> role, content |-> msg.message, timestamp |-> msg.timestamp]

\* .flatMap: the user message of an entry, and the assistant message if the
\* entry has a response
RECURSIVE flatMap(_)
flatMap(entries) ==
  IF entries = <<>> THEN <<>>
  ELSE LET msg == Head(entries)
       IN <<ChatMessage("user", msg)>>
            \o (IF msg.response THEN <<ChatMessage("assistant", msg)>> ELSE <<>>)
            \o flatMap(Tail(entries))

\* .sort((a, b) => a.timestamp - b.timestamp), a stable sort
RECURSIVE InsertByTimestamp(_, _)
InsertByTimestamp(sorted, m) ==
  IF sorted = <<>> THEN <<m>>
  ELSE IF sorted[Len(sorted)].timestamp <= m.timestamp THEN Append(sorted, m)
  ELSE Append(InsertByTimestamp(SubSeq(sorted, 1, Len(sorted) - 1), m),
              sorted[Len(sorted)])

RECURSIVE sortByTimestamp(_)
sortByTimestamp(ms) ==
  IF ms = <<>> THEN <<>>
  ELSE InsertByTimestamp(sortByTimestamp(SubSeq(ms, 1, Len(ms) - 1)), ms[Len(ms)])

\* the list getConversationMessages computes from a messageHistory
MessagesOf(messageHistory, conversationId) ==
  LET OfConversation(msg) == msg.conversationId = conversationId
  IN sortByTimestamp(flatMap(SelectSeq(messageHistory, OfConversation)))

\* .slice(-500)
slice(history) ==
  IF Len(history) > HistoryLimit
  THEN SubSeq(history, Len(history) - HistoryLimit + 1, Len(history))
  ELSE history

\* getConversationMessages up to its await: a cached list is returned at once
getConversationMessages(c, conversationId) ==
  /\ conversations.calls[c].op = "none"
  /\ conversations' =
       IF has(conversations.conversationCache, conversationId)
       THEN conversations
       ELSE [conversations EXCEPT
               !.calls[c] = [NoCall EXCEPT !.op = "get",
                                           !.conversationId = conversationId,
                                           !.pc = "get"]]

\* storeMessage up to its first await; elapsed is what Date.now() has advanced by
storeMessageBegins(c, conversationId, response, elapsed) ==
  /\ conversations.calls[c].op = "none"
  /\ conversations.stores < MaxStores
  /\ LET timestamp == conversations.clock + elapsed
         message == conversations.stores + 1
     IN conversations' =
          [conversations EXCEPT
             !.clock = timestamp,
             !.stores = message,
             !.calls[c] =
                [NoCall EXCEPT
                   !.op = "store", !.conversationId = conversationId,
                   !.pc = "get",
                   !.historyEntry =
                      HistoryEntry(conversationId, timestamp, message, response)]]

\* await this.storage.get('messageHistory', []) resolves, up to the next await
\* or the return
HistoryGetResolves(c) ==
  LET call == conversations.calls[c]
      messageHistory == conversations.messageHistory
  IN /\ call.pc = "get"
     /\ conversations' =
          IF call.op = "get"
          THEN [conversations EXCEPT
                  !.conversationCache =
                     set(@, call.conversationId,
                         MessagesOf(messageHistory, call.conversationId)),
                  !.calls[c] = NoCall]
          ELSE [conversations EXCEPT
                  !.calls[c].pc = "setHistory",
                  !.calls[c].trimmedHistory =
                     slice(Append(messageHistory, call.historyEntry))]

\* await this.storage.set('messageHistory', trimmedHistory) resolves
HistorySetResolves(c) ==
  LET call == conversations.calls[c]
  IN /\ call.pc = "setHistory"
     /\ conversations' =
          [conversations EXCEPT
             !.messageHistory = call.trimmedHistory,
             !.calls[c].pc = "setLast",
             !.calls[c].trimmedHistory = <<>>]

\* await this.storage.set('lastMessage', historyEntry) resolves: the cache
\* entry of the call's conversation is deleted and the call returns
StoreMessageReturns(c) ==
  LET call == conversations.calls[c]
  IN /\ call.pc = "setLast"
     /\ conversations' =
          [conversations EXCEPT
             !.lastMessage = call.historyEntry,
             !.conversationCache = delete(@, call.conversationId),
             !.calls[c] = NoCall]

\* the storage request a call awaits is rejected: the call throws
StorageRejects(c) ==
  /\ conversations.calls[c].pc # "done"
  /\ conversations' = [conversations EXCEPT !.calls[c] = NoCall]

(***************************************************************************)
(* Response bodies.                                                        *)
(***************************************************************************)
\* the lines a body of the decoder specification is made of
LineVocab ==
  { <<"{", "a", "}">>,          \* a JSON line with content "a"
    <<"D", "{", "b", "}">>,     \* data: + a JSON line with content "b"
    <<"{", Lead, Cont, "}">>,   \* a JSON line whose content is a 2-byte character
    <<"{", "}">>,               \* a JSON line without content
    <<"{", "a">>,               \* not JSON
    <<"D", "S">>,               \* data: [DONE]
    <<" ">> }                   \* a blank line

RECURSIVE JoinLines(_)
JoinLines(ls) ==
  IF ls = <<>> THEN <<>>
  ELSE IF Len(ls) = 1 THEN ls[1]
  ELSE ls[1] \o <<NL>> \o JoinLines(Tail(ls))

\* every body of at most MaxLines lines, the last one newline-terminated or not
Bodies ==
  {JoinLines(ls) \o end :
     ls \in UNION {[1..k -> LineVocab] : k \in 0..MaxLines},
     end \in {<<>>, <<NL>>}}

\* the body of the responses of the registry specification: one delta, left in
\* the buffer when the stream ends
OneDelta == { <<"{", "a", "}">> }
\* the body of the response of the delivery specification: two deltas
TwoDeltas == { <<"{", "a", "}", NL, "{", "b", "}", NL>> }
\* the body of the response of the subscription specification: one delta
OneLine == { <<"{", "a", "}", NL>> }

\* the chunk sizes of the registry and subscription specifications: a chunk
\* ends with a line or with the body (the decoder specification cuts anywhere)
LineCuts(src) == {n \in 1..Len(src) : n = Len(src) \/ src[n] = NL}

\* the tab the requests of the registry specification come from
RequestTabs == {1}

(***************************************************************************)
(* InteractionHandler: one run() of the LLM <-> tools loop.  Every action   *)
(* is the code between two awaits.  Tool calls are well formed (each has a  *)
(* function name); their arguments may fail to parse.                       *)
(***************************************************************************)
maxIterations == 5

\* how many tool calls an LLM response may request
ToolCallCounts == {1, 2}

Answer == "answer"
ErrorResponse == "I encountered an error while processing your request"
MaxIterationsResponse == "I've reached the maximum number of tool interactions"

HistoryMessage(role, content, calls, id) ==
  [role |-> role, content |-> content, tool_calls |-> calls, tool_call_id |-> id]

UserMessage == HistoryMessage("user", "message", <<>>, 0)

\* what getConversationMessages may give
PreviousMessages ==
  {<<>>, <<UserMessage, HistoryMessage("assistant", Answer, <<>>, 0)>>}

ToolCallLists ==
  {[i \in DOMAIN f |-> [id |-> i, argsOk |-> f[i]]] :
     f \in UNION {[1..n -> BOOLEAN] : n \in ToolCallCounts}}

\* the shapes of getLlmCompletion's result: a text, nothing, or tool calls
LLMResponses ==
  {[content |-> c, tool_calls |-> <<>>] : c \in {Answer, ""}}
    \cup {[content |-> "", tool_calls |-> tc] : tc \in ToolCallLists}

VARIABLE handler

NewHandler(manager) ==
  [ conversationManager |-> manager,
    pc               |-> "new",
    currentIteration |-> 0,
    messageHistory   |-> <<>>,
    finalResponse    |-> "",
    toolCalls        |-> <<>>,
    broadcasts       |-> <<>>,
    calls            |-> [llm |-> 0, store |-> 0],
    stored           |-> <<>>,    \* the message and response given to storeMessage
    storeError       |-> FALSE,   \* console.error('Error storing conversation')
    iterationError   |-> FALSE,   \* console.error(`Error in iteration ...`)
    result           |-> "none" ]

loopVars == <<handler>>

hasToolCalls(response) == Len(response.tool_calls) > 0

extractTextContent(response) == response.content

\* A mutant of streamResponseToUI: the content is not marked as first.
streamResponseToUINotFirst(h, content) ==
  IF content = "" THEN h
  ELSE [h EXCEPT !.broadcasts = Append(@, StreamContent(content, FALSE))]

streamResponseToUI(h, content) ==
  IF content = "" THEN h
  ELSE [h EXCEPT !.broadcasts = Append(@, StreamContent(content, TRUE))]

\* A mutant of RunReturns: HIDE_LOADING at the end of the try block.
RunReturnsHidesOnSuccess(h, success) ==
  [h EXCEPT !.pc = "returned",
            !.result = IF success THEN "success" ELSE "failure",
            !.broadcasts = IF success THEN Append(@, HideLoading) ELSE @]

\* run(): the return, with the broadcast of its finally block
RunReturns(h, success) ==
  [h EXCEPT !.pc = "returned",
            !.result = IF success THEN "success" ELSE "failure",
            !.broadcasts = Append(@, HideLoading)]

\* run(): the catch block
RunCatch(h) ==
  RunReturns([h EXCEPT !.broadcasts = Append(@, ShowError)], FALSE)

\* storeConversation up to its await
storeConversation(h) ==
  IF h.finalResponse = "" \/ ~h.conversationManager
  THEN RunReturns(h, TRUE)
  ELSE [h EXCEPT !.pc = "storeMessage", !.calls.store = @ + 1,
                 !.stored = <<UserMessage.content, h.finalResponse>>]

\* interactionLoop after the while loop, and run() after it
AfterLoop(h) ==
  storeConversation(
    IF h.currentIteration >= maxIterations /\ h.finalResponse = ""
    THEN streamResponseToUI([h EXCEPT !.finalResponse = MaxIterationsResponse],
                            MaxIterationsResponse)
    ELSE h)

WhileLoopOneMore(h) ==
  IF h.currentIteration <= maxIterations
  THEN [h EXCEPT !.currentIteration = @ + 1,
                 !.pc = "callLLM",
                 !.calls.llm = @ + 1]
  ELSE AfterLoop(h)

\* the head of the while loop, up to the await of callLLM
WhileLoop(h) ==
  IF h.currentIteration < maxIterations
  THEN [h EXCEPT !.currentIteration = @ + 1,
                 !.pc = "callLLM",
                 !.calls.llm = @ + 1]
  ELSE AfterLoop(h)

\* A mutant of IterationCatch: the catch block goes on with the next iteration.
IterationCatchContinues(h) ==
  WhileLoop(streamResponseToUI(
              [h EXCEPT !.iterationError = TRUE, !.toolCalls = <<>>], ErrorResponse))

\* the catch block of an iteration: set and stream the error response, break
IterationCatch(h) ==
  AfterLoop(streamResponseToUI(
              [h EXCEPT !.finalResponse = ErrorResponse, !.iterationError = TRUE,
                        !.toolCalls = <<>>],
              ErrorResponse))

\* toolCall.function is there; without it toolCall.function.name throws in the
\* try block of the call and again in its catch block
HasFunction(toolCall) == "argsOk" \in DOMAIN toolCall

\* A mutant of ToolMessage: the result does not name its call.
ToolMessageWithoutId(content, id) == HistoryMessage("tool", content, <<>>, 0)

ToolMessage(content, id) == HistoryMessage("tool", content, <<>>, id)

RECURSIVE ExecuteFrom(_, _)
\* executeToolCalls: the for loop from the tool calls left, up to the next
\* await of executeTool; unparsable arguments are caught without an await
ExecuteFrom(h, left) ==
  IF left = <<>> THEN WhileLoop([h EXCEPT !.toolCalls = <<>>])
  ELSE IF ~HasFunction(Head(left)) THEN IterationCatch(h)
  ELSE IF Head(left).argsOk
       THEN [h EXCEPT !.pc = "executeTool", !.toolCalls = left]
       ELSE ExecuteFrom(
              [h EXCEPT !.messageHistory =
                          Append(@, ToolMessage("error", Head(left).id))],
              Tail(left))

ToolCallIds(calls) == [i \in 1..Len(calls) |-> calls[i].id]

\* an LLM response with a tool call that has no `function`: the response
\* lists one or two calls and the last one is the malformed one
MalformedResponses ==
  {[content |-> "", tool_calls |-> Append(calls, [id |-> Len(calls) + 1])] :
     calls \in {<<>>} \cup {tc \in ToolCallLists : Len(tc) = 1}}

\* run() up to the await of mcpConnector.initialize
run ==
  /\ handler.pc = "new"
  /\ handler' = [handler EXCEPT !.pc = "initializeMCP"]
  /\ UNCHANGED <<streamVars, routerVars>>

\* mcpConnector.initialize settles; buildMessageHistory up to its await
initializeMCP(ok) ==
  /\ handler.pc = "initializeMCP"
  /\ handler' =
       IF ~ok THEN RunCatch(handler)
       ELSE IF handler.conversationManager
            THEN [handler EXCEPT !.pc = "getConversationMessages"]
            ELSE WhileLoop([handler EXCEPT !.messageHistory = <<UserMessage>>])
  /\ UNCHANGED <<streamVars, routerVars>>

\* getConversationMessages settles; the loop starts
buildMessageHistory(previousMessages, ok) ==
  /\ handler.pc = "getConversationMessages"
  /\ handler' =
       WhileLoop([handler EXCEPT !.messageHistory =
                    IF ok THEN Append(previousMessages, UserMessage)
                    ELSE <<UserMessage>>])
  /\ UNCHANGED <<streamVars, routerVars>>

\* getLlmCompletion resolves
callLLM(llmResponse) ==
  /\ handler.pc = "callLLM"
  /\ handler' =
       IF hasToolCalls(llmResponse)
       THEN ExecuteFrom(
              [handler EXCEPT !.messageHistory =
                 Append(@, HistoryMessage("assistant", llmResponse.content,
                                          ToolCallIds(llmResponse.tool_calls), 0))],
              llmResponse.tool_calls)
       ELSE LET text == extractTextContent(llmResponse)
            IN AfterLoop(streamResponseToUI(
                           [handler EXCEPT !.finalResponse = text], text))
  /\ UNCHANGED <<streamVars, routerVars>>

\* getLlmCompletion rejects: the catch block of the iteration
callLLMThrows ==
  /\ handler.pc = "callLLM"
  /\ handler' = IterationCatch(handler)
  /\ UNCHANGED <<streamVars, routerVars>>

\* A mutant of executeTool: a failed execution reaches the catch block of
\* the iteration.
executeToolAborts(ok) ==
  /\ handler.pc = "executeTool"
  /\ LET toolCall == Head(handler.toolCalls)
         pushed == [handler EXCEPT !.messageHistory =
                      Append(@, ToolMessage(IF ok THEN "result" ELSE "error",
                                            toolCall.id))]
     IN handler' =
          IF ok THEN ExecuteFrom(pushed, Tail(handler.toolCalls))
          ELSE AfterLoop(streamResponseToUI(
                 [pushed EXCEPT !.finalResponse = ErrorResponse, !.toolCalls = <<>>],
                 ErrorResponse))
  /\ UNCHANGED <<streamVars, routerVars>>

\* mcpConnector.executeTool settles for the tool call awaited
executeTool(ok) ==
  /\ handler.pc = "executeTool"
  /\ LET toolCall == Head(handler.toolCalls)
     IN handler' =
          ExecuteFrom(
            [handler EXCEPT !.messageHistory =
               Append(@, ToolMessage(IF ok THEN "result" ELSE "error", toolCall.id))],
            Tail(handler.toolCalls))
  /\ UNCHANGED <<streamVars, routerVars>>

\* A mutant of storeMessage: a failure reaches the catch block of run().
storeMessageThrows(ok) ==
  /\ handler.pc = "storeMessage"
  /\ handler' = IF ok THEN RunReturns(handler, TRUE)
                ELSE RunCatch([handler EXCEPT !.storeError = TRUE])
  /\ UNCHANGED <<streamVars, routerVars>>

\* conversationManager.storeMessage settles; a failure is logged only
storeMessage(ok) ==
  /\ handler.pc = "storeMessage"
  /\ handler' = RunReturns([handler EXCEPT !.storeError = ~ok], TRUE)
  /\ UNCHANGED <<streamVars, routerVars>>

vars == <<streamVars, loopVars, routerVars>>

(***************************************************************************)
(* Specifications.                                                         *)
(***************************************************************************)
\* the router and the services but the conversation manager
RouterInitBut ==
  /\ switching = {}
  /\ streamCheck = "none"
  /\ requests = [id \in RequestIds |-> NoRequest]
  /\ now = 0
  /\ apiFetch = NoFetch
  /\ agentManager = NewAgentManager
  /\ mcp = NewConnector

RouterInit ==
  /\ RouterInitBut
  /\ conversations = NewConversationManager(<<>>)

Init == StreamInit /\ RouterInit /\ handler = NewHandler(TRUE)

PendingBounded == Cardinality(pending') <= MaxPending

\* The registry: successive streams of both agents, their read loops and the
\* deliveries of their broadcasts.
Next ==
  \/ \E a \in Agents, t \in RequestTabs, body \in OneDelta :
       SendChatStream(a, t, body) /\ UNCHANGED <<loopVars, routerVars>>
  \/ \E r \in Readers : \E n \in LineCuts(reader[r].src) :
       ReadChunk(r, n) /\ PendingBounded /\ UNCHANGED <<loopVars, routerVars>>
  \/ \E r \in Readers : ReadDone(r) /\ PendingBounded /\ UNCHANGED <<loopVars, routerVars>>
  \/ \E r \in Readers : ReadError(r) /\ PendingBounded /\ UNCHANGED <<loopVars, routerVars>>
  \/ \E task \in pending : TabGetSettles(task) /\ UNCHANGED <<loopVars, routerVars>>

Spec == Init /\ [][Next]_vars

\* The deliveries: one stream of two deltas and the tabs that join it; no tab
\* leaves, navigates or closes.
NextDeliver ==
  \/ \E a \in Agents, t \in Tabs, body \in TwoDeltas :
       UsedReaders = {} /\ SendChatStream(a, t, body) /\ UNCHANGED <<loopVars, routerVars>>
  \/ \E r \in Readers : \E n \in LineCuts(reader[r].src) :
       ReadChunk(r, n) /\ PendingBounded /\ UNCHANGED <<loopVars, routerVars>>
  \/ \E r \in Readers : ReadDone(r) /\ PendingBounded /\ UNCHANGED <<loopVars, routerVars>>
  \/ \E r \in Readers : ReadError(r) /\ PendingBounded /\ UNCHANGED <<loopVars, routerVars>>
  \/ \E task \in pending : TabGetSettles(task) /\ UNCHANGED <<loopVars, routerVars>>
  \/ \E t \in Tabs, a \in Agents : handleJoinPanel(t, a) /\ UNCHANGED <<loopVars, routerVars>>

SpecDeliver == Init /\ [][NextDeliver]_vars

\* the reads of a stream that delivers its chunks, each ending with a line,
\* and ends
ReadSteps ==
  \/ \E r \in Readers : \E n \in LineCuts(reader[r].src) :
       ReadChunk(r, n) /\ UNCHANGED <<loopVars, routerVars>>
  \/ \E r \in Readers : ReadDone(r) /\ UNCHANGED <<loopVars, routerVars>>

\* The deliveries left behind: one stream of two deltas that arrives and ends,
\* the tabs that join it, and broadcast callbacks that may never resume.
NextFireAndForget ==
  \/ \E a \in Agents, t \in Tabs, body \in TwoDeltas :
       UsedReaders = {} /\ SendChatStream(a, t, body) /\ UNCHANGED <<loopVars, routerVars>>
  \/ ReadSteps
  \/ \E task \in pending : TabGetSettles(task) /\ UNCHANGED <<loopVars, routerVars>>
  \/ \E t \in Tabs, a \in Agents : handleJoinPanel(t, a) /\ UNCHANGED <<loopVars, routerVars>>

\* the network delivers the chunks and the end of the body; nothing is
\* assumed of chrome.tabs.get
SpecFireAndForget == Init /\ [][NextFireAndForget]_vars /\ WF_vars(ReadSteps)

\* The subscriptions: one stream, and the tabs joining, leaving, navigating
\* and closing while it is read and delivered.
NextTabs ==
  \/ \E a \in Agents, t \in Tabs, body \in OneLine :
       UsedReaders = {} /\ SendChatStream(a, t, body) /\ UNCHANGED <<loopVars, routerVars>>
  \/ \E r \in Readers : \E n \in LineCuts(reader[r].src) :
       ReadChunk(r, n) /\ PendingBounded /\ UNCHANGED <<loopVars, routerVars>>
  \/ \E r \in Readers : ReadDone(r) /\ PendingBounded /\ UNCHANGED <<loopVars, routerVars>>
  \/ \E r \in Readers : ReadError(r) /\ PendingBounded /\ UNCHANGED <<loopVars, routerVars>>
  \/ \E task \in pending : TabGetSettles(task) /\ UNCHANGED <<loopVars, routerVars>>
  \/ \E t \in Tabs, a \in Agents : handleJoinPanel(t, a) /\ UNCHANGED <<loopVars, routerVars>>
  \/ \E t \in Tabs : handleLeavePanel(t) /\ UNCHANGED <<loopVars, routerVars>>
  \/ \E t \in Tabs : onRemoved(t) /\ UNCHANGED <<loopVars, routerVars>>
  \/ \E t \in Tabs : onUpdatedLoading(t) /\ UNCHANGED <<loopVars, routerVars>>

SpecTabs == Init /\ [][NextTabs]_vars

\* The decoder: one stream whose body is any of Bodies, cut into chunks anywhere.
NextDecode ==
  \/ /\ UsedReaders = {}
     /\ \E body \in Bodies : SendChatStream("A", 1, body)
     /\ UNCHANGED <<loopVars, routerVars>>
  \/ \E r \in Readers : \E n \in 1..Len(reader[r].src) :
       ReadChunk(r, n) /\ UNCHANGED <<loopVars, routerVars>>
  \/ \E r \in Readers : ReadDone(r) /\ UNCHANGED <<loopVars, routerVars>>

SpecDecode == Init /\ [][NextDecode]_vars

\* The interaction loop: one run() against every LLM, tool and store behaviour.
InitLoop == StreamInit /\ RouterInit /\ handler \in {NewHandler(m) : m \in BOOLEAN}

NextLoop ==
  \/ run
  \/ \E ok \in BOOLEAN : initializeMCP(ok)
  \/ \E previousMessages \in PreviousMessages, ok \in BOOLEAN :
       buildMessageHistory(previousMessages, ok)
  \/ \E llmResponse \in LLMResponses : callLLM(llmResponse)
  \/ callLLMThrows
  \/ \E ok \in BOOLEAN : executeTool(ok)
  \/ \E ok \in BOOLEAN : storeMessage(ok)

\* every call awaited settles: the LLM request, a tool execution (under its
\* request timeout) and the store resolve or reject
SpecLoop == InitLoop /\ [][NextLoop]_vars /\ WF_vars(NextLoop)

\* One run() of the handler handleMCPChatMessage makes: it is given the
\* router's conversation manager.
SpecRun == Init /\ [][NextLoop]_vars /\ WF_vars(NextLoop)

\* The requests with an overall timeout, and the clock.
NextRequest ==
  \/ \E id \in RequestIds, action \in RequestActions, tabId \in Tabs \cup {NoTab} :
       handleRequest(id, action, tabId) /\ UNCHANGED loopVars
  \/ \E id \in RequestIds, result \in OperationResults :
       OperationSettles(id, result) /\ UNCHANGED loopVars
  \/ \E id \in RequestIds : TimerFires(id) /\ UNCHANGED loopVars
  \/ Tick /\ UNCHANGED loopVars

SpecRequest == Init /\ [][NextRequest]_vars

\* the variables of the router and of the stream handler
coreVars == <<streamVars, loopVars, switching, streamCheck, requestVars>>

exceptApiFetch == <<coreVars, agentManager, mcp, conversations>>
exceptAgentManager == <<coreVars, apiFetch, mcp, conversations>>
exceptMcp == <<coreVars, apiFetch, agentManager, conversations>>
exceptConversations == <<coreVars, apiFetch, agentManager, mcp>>

\* The conversation manager: getConversationMessages and storeMessage calls of
\* two conversations, overlapping or not, over each stored history.
InitConversations ==
  /\ StreamInit
  /\ RouterInitBut
  /\ handler = NewHandler(TRUE)
  /\ conversations \in {NewConversationManager(h) : h \in StoredHistories}

NextConversations ==
  \/ \E c \in Calls, conversationId \in ConversationIds :
       getConversationMessages(c, conversationId) /\ UNCHANGED exceptConversations
  \/ \E c \in Calls, conversationId \in ConversationIds, response \in BOOLEAN,
        elapsed \in {0, 1} :
       storeMessageBegins(c, conversationId, response, elapsed)
         /\ UNCHANGED exceptConversations
  \/ \E c \in Calls : HistoryGetResolves(c) /\ UNCHANGED exceptConversations
  \/ \E c \in Calls : HistorySetResolves(c) /\ UNCHANGED exceptConversations
  \/ \E c \in Calls : StoreMessageReturns(c) /\ UNCHANGED exceptConversations
  \/ \E c \in Calls : StorageRejects(c) /\ UNCHANGED exceptConversations

SpecConversations == InitConversations /\ [][NextConversations]_vars

\* The MCP connector: requests sent, answered over SSE, timing out, and their
\* POSTs succeeding or failing.
NextMcp ==
  \/ sendRequest /\ UNCHANGED exceptMcp
  \/ \E id \in RequestNumbers : handleMessage(id) /\ UNCHANGED exceptMcp
  \/ \E id \in RequestNumbers : RequestTimeout(id) /\ UNCHANGED exceptMcp
  \/ \E id \in RequestNumbers, posted \in BOOLEAN :
       PostSettles(id, posted) /\ UNCHANGED exceptMcp
  \/ disconnect /\ UNCHANGED exceptMcp

SpecMcp == Init /\ [][NextMcp]_vars

\* The interaction loop with LLM responses whose handling throws as well.
NextLoopThrows ==
  \/ NextLoop
  \/ \E llmResponse \in MalformedResponses : callLLM(llmResponse)

SpecLoopThrows == InitLoop /\ [][NextLoopThrows]_vars /\ WF_vars(NextLoopThrows)

\* The agent manager: initialize and the calls that change the list, before,
\* during and after it.
NextAgents ==
  \/ initialize /\ UNCHANGED exceptAgentManager
  \/ \E agents \in StoredAgents, activeAgentId \in AgentIds \cup {Null},
        id \in AgentIds :
       storageGetResolves(agents, activeAgentId, id) /\ UNCHANGED exceptAgentManager
  \/ storageGetRejects /\ UNCHANGED exceptAgentManager
  \/ \E saved \in BOOLEAN : initializeSaved(saved) /\ UNCHANGED exceptAgentManager
  \/ \E id \in AgentIds : addAgent(id) /\ UNCHANGED exceptAgentManager
  \/ \E agentId, newId \in AgentIds :
       updateAgent(agentId, newId) /\ UNCHANGED exceptAgentManager
  \/ \E agentId, id \in AgentIds :
       removeAgent(agentId, id) /\ UNCHANGED exceptAgentManager
  \/ \E agentId \in AgentIds : setActiveAgent(agentId) /\ UNCHANGED exceptAgentManager

SpecAgents == Init /\ [][NextAgents]_vars

\* The API client: fetch calls, streaming and not, against every outcome of
\* their HTTP attempts.
NextFetch ==
  \/ \E isStreaming \in BOOLEAN : ApiFetch(isStreaming) /\ UNCHANGED exceptApiFetch
  \/ \E status \in Statuses : HttpResponds(status) /\ UNCHANGED exceptApiFetch
  \/ \E error \in FetchErrors : HttpFails(error) /\ UNCHANGED exceptApiFetch
  \/ BackoffElapses /\ UNCHANGED exceptApiFetch

SpecFetch == Init /\ [][NextFetch]_vars

\* The agent switches: tabs joining, switching agent and leaving; no stream.
NextSwitch ==
  \/ \E t \in Tabs, a \in Agents :
       handleJoinPanel(t, a) /\ UNCHANGED <<loopVars, routerVars>>
  \/ \E t \in Tabs, a \in Agents \cup {UnknownAgent} :
       handleSwitchAgent(t, a) /\ UNCHANGED loopVars
  \/ \E request \in switching, saved \in BOOLEAN :
       setActiveAgentSettles(request, saved) /\ UNCHANGED loopVars
  \/ \E t \in Tabs :
       handleLeavePanel(t) /\ UNCHANGED <<loopVars, routerVars>>

SpecSwitch == Init /\ [][NextSwitch]_vars

\* The sends: one stream, tabs that join and close, and sends that fail.
NextSend ==
  \/ \E a \in Agents, t \in Tabs, body \in OneLine :
       /\ UsedReaders = {}
       /\ SendChatStream(a, t, body)
       /\ UNCHANGED <<loopVars, routerVars>>
  \/ \E r \in Readers : \E n \in LineCuts(reader[r].src) :
       ReadChunk(r, n) /\ PendingBounded /\ UNCHANGED <<loopVars, routerVars>>
  \/ \E r \in Readers :
       ReadDone(r) /\ PendingBounded /\ UNCHANGED <<loopVars, routerVars>>
  \/ \E task \in pending :
       TabGetSettles(task) /\ UNCHANGED <<loopVars, routerVars>>
  \/ \E task \in pending, error \in SendErrors :
       SendFails(task, error) /\ UNCHANGED <<loopVars, routerVars>>
  \/ \E send \in pending :
       SendRejected(send) /\ UNCHANGED <<loopVars, routerVars>>
  \/ \E t \in Tabs, a \in Agents :
       handleJoinPanel(t, a) /\ UNCHANGED <<loopVars, routerVars>>
  \/ \E t \in Tabs : onRemoved(t) /\ UNCHANGED <<loopVars, routerVars>>

SpecSend == Init /\ [][NextSend]_vars

\* The stream check: one stream, its tab leaving, and the periodic check.
NextCheck ==
  \/ \E a \in Agents, t \in Tabs, body \in OneLine :
       /\ UsedReaders = {}
       /\ SendChatStream(a, t, body)
       /\ UNCHANGED <<loopVars, routerVars>>
  \/ \E r \in Readers : \E n \in LineCuts(reader[r].src) :
       ReadChunk(r, n) /\ PendingBounded /\ UNCHANGED <<loopVars, routerVars>>
  \/ \E r \in Readers :
       ReadDone(r) /\ PendingBounded /\ UNCHANGED <<loopVars, routerVars>>
  \/ \E task \in pending :
       TabGetSettles(task) /\ UNCHANGED <<loopVars, routerVars>>
  \/ \E t \in Tabs, a \in Agents :
       handleJoinPanel(t, a) /\ UNCHANGED <<loopVars, routerVars>>
  \/ \E t \in Tabs : handleLeavePanel(t) /\ UNCHANGED <<loopVars, routerVars>>
  \/ checkOrphanedStreams /\ UNCHANGED loopVars

SpecCheck == Init /\ [][NextCheck]_vars

\* The read failures: successive streams of one agent whose reads end, are
\* cancelled, fail or are aborted.
NextAbort ==
  \/ \E t \in RequestTabs, body \in OneDelta :
       SendChatStream("A", t, body) /\ UNCHANGED <<loopVars, routerVars>>
  \/ \E r \in Readers : \E n \in LineCuts(reader[r].src) :
       ReadChunk(r, n) /\ PendingBounded /\ UNCHANGED <<loopVars, routerVars>>
  \/ \E r \in Readers :
       ReadDone(r) /\ PendingBounded /\ UNCHANGED <<loopVars, routerVars>>
  \/ \E r \in Readers :
       ReadError(r) /\ PendingBounded /\ UNCHANGED <<loopVars, routerVars>>
  \/ \E r \in Readers :
       ReadAborted(r) /\ PendingBounded /\ UNCHANGED <<loopVars, routerVars>>
  \/ \E task \in pending :
       TabGetSettles(task) /\ UNCHANGED <<loopVars, routerVars>>

SpecAbort == Init /\ [][NextAbort]_vars

(***************************************************************************)
(* Properties.                                                             *)
(***************************************************************************)
OpenReaders(a) ==
  {r \in Readers : reader[r].state = "open" /\ reader[r].agent = a}

\* C1: at every moment every agent has at most one open reader (registered,
\* neither finished nor cancelled).
C1_AtMostOneOpenReader ==
  \A a \in Agents : Cardinality(OpenReaders(a)) <= 1

\* The step is registerStream(a, r, _): r has been unused and is now a's reader.
Registered(a, r) ==
  /\ reader[r].state = "unused"
  /\ reader'[r].state = "open"
  /\ reader'[r].agent = a

\* C2: a registerStream for an agent whose stream is registered leaves the new
\* reader as the agent's entry, and cancel() has been called on the previous one.
C2_RegisterCancelsPrevious ==
  [][\A a \in Agents, r \in Readers :
       (Registered(a, r) /\ activeStreams[a] # NoStream)
         => /\ activeStreams'[a] = r
            /\ reader'[activeStreams[a]].state = "cancelled"]_vars

\* a stream has just been superseded: its loop has not seen the cancel yet
C2_Witness ==
  \E r \in Readers :
    /\ reader[r].state = "cancelled"
    /\ proc[r].pc = "reading"
    /\ activeStreams[reader[r].agent] \notin {NoStream, r}

\* C3: a tab receives the STREAM_CONTENT messages of a session in the order
\* in which the deltas were decoded.
C3_DeliveredInDecodeOrder ==
  \A t \in Tabs : \A i, j \in 1..Len(delivered[t]) :
    (i < j /\ delivered[t][i].reader = delivered[t][j].reader)
      => delivered[t][i].idx < delivered[t][j].idx

Message(d) == proc[d.reader].msgs[d.idx]

\* C4: a tab added by JOIN_PANEL while the agent's stream is in flight with
\* accumulated content receives an isFirst message of that agent before any
\* later delta of that stream.
C4_LateJoinerCatchesUp ==
  \A t \in Tabs :
    LET l == tabLog[t] IN
    l.late # NoStream =>
      \A i \in (l.mark + 1)..Len(delivered[t]) :
        (delivered[t][i].reader = l.late /\ ~Message(delivered[t][i]).isFirst)
          => \E k \in (l.mark + 1)..(i - 1) :
               /\ Message(delivered[t][k]).isFirst
               /\ reader[delivered[t][k].reader].agent = reader[l.late].agent

\* The step ends the processStream call on reader r.
Finishes(r) == proc[r].pc = "reading" /\ proc'[r].pc \in {"done", "failed"}

\* C5: when a processStream call ends, normally or by a failed read, its last
\* broadcast is HIDE_LOADING, to every subscriber tab of the agent, and the
\* registry does not hold its reader.
C5_EndHidesLoadingAndUnregisters ==
  [][\A r \in Readers :
       Finishes(r) =>
         LET a == reader[r].agent
             n == Len(proc'[r].msgs)
         IN /\ n >= 1
            /\ proc'[r].msgs[n] = HideLoading
            /\ \A t \in activeStreamTabs[a] : Task(t, a, r, n) \in pending'
            /\ activeStreams'[a] # r]_vars

\* one call has ended with the stream, another one by a failed read
C5_Witness ==
  \E r1, r2 \in Readers :
    /\ proc[r1].pc = "done" /\ reader[r1].state = "closed"
    /\ proc[r2].pc = "failed" /\ reader[r2].state = "errored"

\* C6: after LEAVE_PANEL, a tab-removed event or a tab-updated event with
\* status "loading", the tab is in no agent's subscriber set.
C6_RemovedFromEveryStream ==
  \A t \in Tabs :
    tabLog[t].last \in {"LEAVE_PANEL", "removed", "loading"}
      => SubscribedTo(t) = {}

\* a tab subscribed to both agents has started a navigation
C6_Witness ==
  \E t \in Tabs :
    /\ tabLog[t].last = "loading"
    /\ tabLog[t].was = Agents
    /\ SubscribedTo(t) = {}

\* interactionLoop has returned (run() is storing the turn or has returned)
LoopReturned ==
  /\ handler.pc \in {"storeMessage", "returned"}
  /\ handler.result # "failure"

ToolRequests(history) ==
  {i \in DOMAIN history :
     history[i].role = "assistant" /\ history[i].tool_calls # <<>>}

\* every LLM call made has been answered with at least one tool call
OnlyToolRequests ==
  handler.calls.llm = Cardinality(ToolRequests(handler.messageHistory))

C7_Fallback ==
  /\ handler.calls.llm <= maxIterations
  /\ (LoopReturned /\ OnlyToolRequests) =>
       /\ handler.calls.llm = maxIterations
       /\ handler.finalResponse = MaxIterationsResponse
       /\ MaxIterationsResponse # ""
       /\ \E i \in DOMAIN handler.broadcasts :
            handler.broadcasts[i] = StreamContent(MaxIterationsResponse, TRUE)

ContentMsgs(ms) == SelectSeq(ms, LAMBDA m : m.action = "STREAM_CONTENT")

\* what processStream broadcasts for a body that arrives as one chunk
OneChunkRun(body) ==
  LET s1 == OnChunk(NewLocals, body)
      s2 == OnDone(s1)
  IN [reading |-> s1.out, done |-> s1.out \o s2.out \o FinallyMessages]

\* C8: the deltas broadcast depend on the text received, not on where it was
\* cut into chunks (at character boundaries).
C8_ChunkingIndependent ==
  \A r \in Readers :
    ~proc[r].cutInChar =>
      /\ proc[r].pc = "reading"
           => proc[r].msgs = OneChunkRun(reader[r].consumed).reading
      /\ proc[r].pc = "done"
           => proc[r].msgs = OneChunkRun(reader[r].consumed).done

\* the line {a} arrived cut in two and gave one delta "a"
C8_Witness ==
  \E r \in Readers :
    /\ proc[r].pc = "done"
    /\ proc[r].splitLine /\ ~proc[r].cutInChar
    /\ reader[r].consumed = <<"{", "a", "}", NL>>
    /\ proc[r].msgs = <<StreamContent(<<"a">>, TRUE), HideLoading>>

\* the newline-terminated lines of a text
CompleteLines(text) ==
  LET lines == split(text) IN SubSeq(lines, 1, Len(lines) - 1)

HasSentinel(line) == \E i \in 1..Len(line) : line[i] = "S"

\* a line that is valid JSON (after `data: `) and carries content
IsContentLine(line) ==
  /\ trim(line) # <<>>
  /\ ~HasSentinel(line)
  /\ JSONParse(trim(StripData(line))).ok
  /\ JSONParse(trim(StripData(line))).content # <<>>

ContentsOf(text) ==
  LET ls == SelectSeq(CompleteLines(text), IsContentLine)
  IN [i \in 1..Len(ls) |-> JSONParse(trim(StripData(ls[i]))).content]

\* C9: a line that fails to parse is skipped: the call does not fail, and the
\* deltas of the lines read so far are those of the valid lines with content,
\* in order.
C9_MalformedLineSkipped ==
  \A r \in Readers :
    /\ proc[r].pc # "failed"
    /\ proc[r].pc = "reading" =>
         LET cs == ContentMsgs(proc[r].msgs)
         IN [i \in 1..Len(cs) |-> cs[i].content] = ContentsOf(proc[r].text)

\* an invalid line between two valid ones: two deltas
C9_Witness ==
  \E r \in Readers :
    /\ proc[r].pc = "reading"
    /\ proc[r].text = <<"{", "a", "}", NL, "{", "a", NL, "D", "{", "b", "}", NL>>
    /\ Len(ContentMsgs(proc[r].msgs)) = 2

\* C10: of the deltas a processStream call broadcasts, the first one has
\* isFirst = true and every later one isFirst = false.
C10_FirstDeltaAloneIsFirst ==
  \A r \in Readers :
    LET cs == ContentMsgs(proc[r].msgs)
    IN \A i \in 1..Len(cs) : cs[i].isFirst = (i = 1)

\* the second delta came from the buffer at the end of the stream
C10_Witness ==
  \E r \in Readers :
    /\ proc[r].pc = "done"
    /\ Len(ContentMsgs(proc[r].msgs)) = 2
    /\ FinalEvent(proc[r].st.buffer).kind = "delta"

\* the step handles the settled setActiveAgent of a SWITCH_AGENT request that
\* found its agent
SwitchHandled(request) ==
  /\ request \in switching
  /\ request \notin switching'
  /\ request.found
  /\ request.tab \in activeStreamTabs'[request.agent]

\* C11: once SWITCH_AGENT from a tab to an existing agent has been handled,
\* the tab is in that agent's subscriber set and in no other agent's.
C11_SwitchMovesSubscription ==
  [][\A request \in switching :
       SwitchHandled(request) =>
         \A a \in Agents :
           request.tab \in activeStreamTabs'[a] <=> a = request.agent]_vars

\* the step settles the delivery attempt `attempt` of a broadcast
Settles(attempt) == attempt \in pending /\ attempt \notin pending'

\* the step leaves the tab's membership in the agent's subscriber set as it was
KeepsMembership(attempt) ==
  attempt.tab \in activeStreamTabs'[attempt.agent]
    <=> attempt.tab \in activeStreamTabs[attempt.agent]

\* C12: when a delivery attempt settles, the tab is removed from the agent's
\* subscriber set if it no longer exists (and nothing is sent) or if the send
\* failed because there is no receiver; otherwise its membership is untouched.
C12_PrunedWhenGoneOrUnreachable ==
  [][\A attempt \in pending :
       Settles(attempt) =>
         IF AwaitsTabGet(attempt)
           THEN IF attempt.tab \in openTabs
                  THEN KeepsMembership(attempt)
                  ELSE /\ attempt.tab \notin activeStreamTabs'[attempt.agent]
                       /\ delivered' = delivered
                       /\ pending' \subseteq pending
           ELSE IF attempt.error = NoReceiver
                  THEN attempt.tab \notin activeStreamTabs'[attempt.agent]
                  ELSE KeepsMembership(attempt)]_vars

\* a tab that exists was pruned because its receiver was missing, while the
\* other tab has received the delta and stays subscribed
C12_Witness ==
  \E a \in Agents :
    /\ 2 \in openTabs
    /\ tabLog[2].last = "pruned"
    /\ tabLog[2].was = {a}
    /\ delivered[2] = <<>>
    /\ 1 \in activeStreamTabs[a]
    /\ delivered[1] # <<>>
    /\ pending = {}

\* the step removes tab t from subscriber sets on LEAVE_PANEL, on its closing
\* or on its navigation
Unsubscribes(t) ==
  /\ tabLog'[t] # tabLog[t]
  /\ tabLog'[t].last \in {"LEAVE_PANEL", "removed", "loading"}

\* C13: removing a tab from the subscriber sets leaves the registry, the
\* readers and the processStream calls as they are, and the other tabs
\* subscribed.
C13_RemovalCancelsNothing ==
  [][\A t \in Tabs :
       Unsubscribes(t) =>
         /\ activeStreams' = activeStreams
         /\ reader' = reader
         /\ proc' = proc
         /\ \A a \in Agents : activeStreamTabs'[a] = activeStreamTabs[a] \ {t}]_vars

\* tab 1 left by navigating before the delta was broadcast: the stream went
\* on to its end, and tab 2 got the delta
C13_Witness ==
  \E r \in Readers :
    /\ proc[r].pc = "done" /\ reader[r].state = "closed"
    /\ Len(ContentMsgs(proc[r].msgs)) = 1
    /\ tabLog[1].last = "loading"
    /\ tabLog[1].was = {reader[r].agent}
    /\ delivered[1] = <<>>
    /\ delivered[2] # <<>>
    /\ pending = {}

\* agent a has a registered stream that no tab is subscribed to
Orphaned(a) == activeStreams[a] # NoStream /\ activeStreamTabs[a] = {}

\* C14: a stream check that runs while an agent's registered stream has no
\* subscriber cancels that stream's reader and removes it from the registry.
C14_OrphanedStreamCancelled ==
  [][streamCheck' # streamCheck =>
       \A a \in Agents :
         Orphaned(a) =>
           /\ activeStreams'[a] = NoStream
           /\ reader'[activeStreams[a]].state = "cancelled"]_vars

HasShowError(r) ==
  \E i \in 1..Len(proc[r].msgs) : proc[r].msgs[i].action = "SHOW_ERROR"

\* C15: a processStream call whose read failed broadcasts SHOW_ERROR and fails
\* exactly when the failure is no cancellation and no abort: a call on a reader
\* that was cancelled or aborted ends cleanly.
C15_AbortEndsCleanly ==
  \A r \in Readers :
    proc[r].pc \in {"done", "failed"} =>
      /\ reader[r].state \in {"cancelled", "aborted"}
           => proc[r].pc = "done" /\ ~HasShowError(r)
      /\ reader[r].state = "errored"
           => proc[r].pc = "failed" /\ HasShowError(r)

\* the byte cap of a session's accumulated content, in characters of the model
ContentCap == 2

\* C16: the content accumulated for a stream never exceeds the cap.
C16_AccumulatedContentCapped ==
  \A r \in Readers : Len(proc[r].st.collectedContent) <= ContentCap

HideLoadings(ms) == {i \in 1..Len(ms) : ms[i].action = "HIDE_LOADING"}

\* C17: a run() that has returned has broadcast HIDE_LOADING, as its last
\* broadcast and once, whichever way it ended.
C17_RunHidesLoading ==
  handler.pc = "returned" =>
    HideLoadings(handler.broadcasts) = {Len(handler.broadcasts)}

\* a run that ended with the fallback and whose store failed
C17_Witness ==
  /\ handler.pc = "returned"
  /\ handler.finalResponse = MaxIterationsResponse
  /\ handler.storeError
  /\ handler.result = "success"

\* the tool results at the positions after the assistant message at k
ResultsOf(history, k) ==
  LET n == Len(history[k].tool_calls)
      m == IF Len(history) - k < n THEN Len(history) - k ELSE n
  IN [i \in 1..m |-> history[k + i]]

Answers(message, id) == message.role = "tool" /\ message.tool_call_id = id

\* every tool message of the history is one of the results of a request
InAGroup(history, j) ==
  \E k \in ToolRequests(history) :
    k < j /\ j <= k + Len(history[k].tool_calls)

ErrorResults(history) ==
  {j \in DOMAIN history : history[j].role = "tool" /\ history[j].content = "error"}

\* a step in which the error of a tool call became a tool result
ErrorCaptured ==
  Cardinality(ErrorResults(handler'.messageHistory))
    > Cardinality(ErrorResults(handler.messageHistory))

\* every call of the last request has its result
LastRequestAnswered(h) ==
  \E k \in ToolRequests(h.messageHistory) :
    /\ \A l \in ToolRequests(h.messageHistory) : l <= k
    /\ Len(h.messageHistory) = k + Len(h.messageHistory[k].tool_calls)

\* the calls left of the response are still being executed
RemainingExecuted(h) ==
  h.pc = "executeTool" /\ h.toolCalls # <<>> /\ h.finalResponse = ""

\* an LLM call has been made after the last request was answered
NextLLMCallMade(h) ==
  /\ h.pc = "callLLM"
  /\ h.finalResponse = ""
  /\ LastRequestAnswered(h)
  /\ h.calls.llm = Cardinality(ToolRequests(h.messageHistory)) + 1

\* the loop ended by its cap on iterations, with the fallback
EndedByCap(h) ==
  /\ h.pc \in {"storeMessage", "returned"}
  /\ LastRequestAnswered(h)
  /\ h.currentIteration = maxIterations
  /\ h.calls.llm = maxIterations
  /\ h.finalResponse = MaxIterationsResponse

TimerWon(r) == r.timer = "fired" /\ r.race = "rejected"

\* C20: a request whose timer fires before the operation settles is answered
\* with success = false and the timeout error, no earlier than 90 s
\* (ANALYZE_PAGE) or 15 min (CHAT_MESSAGE) after it was made; sendResponse is
\* called once for a request, also when the operation settles afterwards.
C20_TimeoutAnsweredOnce ==
  \A id \in RequestIds :
    LET r == requests[id]
    IN /\ Len(r.responses) <= 1
       /\ (r.action # "none" /\ r.race # "pending") => Len(r.responses) = 1
       /\ r.race = "pending" => r.responses = <<>>
       /\ r.timer = "fired" =>
            now >= r.start + (IF r.action = "ANALYZE_PAGE" THEN 90000 ELSE 900000)
       /\ (r.timer = "fired" /\ r.operation = "pending") => TimerWon(r)
       /\ TimerWon(r) => r.responses = <<Failure(TimedOut)>>
       /\ r.race = "fulfilled" =>
            /\ r.operation = "resolved"
            /\ r.responses[1] \in OperationResults

\* a chat request answered by its timer whose operation settled afterwards,
\* next to an analysis answered by its operation whose timer fired afterwards
C20_Witness ==
  \E id, other \in RequestIds :
    /\ requests[id].action = "CHAT_MESSAGE"
    /\ TimerWon(requests[id])
    /\ requests[id].operation = "resolved"
    /\ requests[id].responses = <<Failure(TimedOut)>>
    /\ requests[other].action = "ANALYZE_PAGE"
    /\ requests[other].race = "fulfilled"
    /\ requests[other].timer = "fired"

RECURSIVE ConcatContent(_)
ConcatContent(ms) ==
  IF ms = <<>> THEN <<>> ELSE Head(ms).content \o ConcatContent(Tail(ms))

ContentIndexes(r) ==
  {i \in DOMAIN proc[r].msgs : proc[r].msgs[i].action = "STREAM_CONTENT"}

\* how many times message i of reader r was given to tabs.sendMessage for t
TimesDelivered(t, r, i) ==
  Cardinality({j \in DOMAIN delivered[t] :
                 delivered[t][j] = [reader |-> r, idx |-> i]})

\* t was sent the first delta of r and no callback for t is left
HeardFromStart(t, r) ==
  /\ \A task \in pending : task.tab # t
  /\ \E i \in ContentIndexes(r) :
       /\ \A j \in ContentIndexes(r) : i <= j
       /\ TimesDelivered(t, r, i) = 1

\* C21: the text processStream has accumulated, and resolves to, is the
\* concatenation in order of the contents of the STREAM_CONTENT messages it
\* broadcast; the first of them is flagged isFirst and no other; a tab gets
\* no message twice, and a tab subscribed from the first delta gets each.
C21_ResolvesToBroadcastContent ==
  \A r \in Readers :
    LET sent == ContentMsgs(proc[r].msgs)
    IN /\ proc[r].st.collectedContent = ConcatContent(sent)
       /\ \A i \in DOMAIN sent : sent[i].isFirst <=> i = 1
       /\ \A t \in Tabs, i \in DOMAIN proc[r].msgs : TimesDelivered(t, r, i) <= 1
       /\ proc[r].pc = "done" =>
            \A t \in Tabs :
              HeardFromStart(t, r) =>
                \A i \in ContentIndexes(r) : TimesDelivered(t, r, i) = 1

\* a stream resolved to "ab" after two deltas, each delivered to both tabs
C21_Witness ==
  \E r \in Readers :
    /\ proc[r].pc = "done"
    /\ proc[r].st.collectedContent = <<"a", "b">>
    /\ ContentMsgs(proc[r].msgs) =
         <<StreamContent(<<"a">>, TRUE), StreamContent(<<"b">>, FALSE)>>
    /\ \A t \in Tabs : HeardFromStart(t, r) /\ Len(delivered[t]) = 2

\* attempt i of the call ended with a 5xx response or a network error
Retryable(entry) ==
  \/ entry[1] = "status" /\ entry[2] >= 500 /\ entry[2] <= 599
  \/ entry[1] = "error" /\ entry[2] \in {FailedToFetch, AbortError}

\* C22: a fetch for a streaming body makes one HTTP attempt; any fetch makes
\* a further attempt only after a 5xx response or a network error, and at
\* most 4 attempts in all.
C22_RetriesBounded ==
  /\ apiFetch.isStreaming => apiFetch.issued <= 1
  /\ apiFetch.issued <= 4
  /\ apiFetch.issued <= Len(apiFetch.log) + 1
  /\ \A i \in DOMAIN apiFetch.log :
       i < apiFetch.issued => Retryable(apiFetch.log[i])
  /\ apiFetch.pc = "backoff" =>
       /\ ~apiFetch.isStreaming
       /\ Retryable(apiFetch.log[Len(apiFetch.log)])

\* a non-streaming call that failed after four attempts, on 5xx responses and
\* network errors
C22_Witness ==
  /\ apiFetch.pc = "rejected"
  /\ ~apiFetch.isStreaming
  /\ apiFetch.issued = 4
  /\ \E i, j \in DOMAIN apiFetch.log :
       apiFetch.log[i][1] = "status" /\ apiFetch.log[j][1] = "error"

\* C23: once initialize has completed, the agent list is not empty and
\* getActiveAgent() returns one of its agents, whatever was stored and
\* whatever was added, updated, removed or made active since.
C23_ActiveAgentInList ==
  agentManager.initialized =>
    /\ Len(agentManager.agents) >= 1
    /\ getActiveAgent(agentManager) \in DOMAIN agentManager.agents

\* the last agent was removed and a default agent stands in its place, active
C23_Witness ==
  /\ agentManager.initialized
  /\ agentManager.removed = "true"
  /\ Len(agentManager.agents) = 1
  /\ agentManager.agents[1].isDefault
  /\ agentManager.activeAgentId = agentManager.agents[1].id

\* the step changes the registry entry, a reader or a read loop of agent a
StreamStepOf(a) ==
  \/ activeStreams'[a] # activeStreams[a]
  \/ \E r \in Readers :
       /\ reader'[r].agent = a
       /\ reader'[r] # reader[r] \/ proc'[r] # proc[r]

\* a step of a stream of agent a leaves the entry, the readers and the
\* subscribers of every other agent as they are
LeavesOthersAlone(a) ==
  \A b \in Agents \ {a} :
    /\ activeStreams'[b] = activeStreams[b]
    /\ activeStreamTabs'[b] = activeStreamTabs[b]
    /\ \A r \in Readers : reader[r].agent = b /\ reader[r].state # "unused"
                             => reader'[r] = reader[r]

\* the step gives tab t a STREAM_CONTENT of an agent while t is subscribed to
\* another agent only
SentAcross(t) ==
  /\ Len(delivered'[t]) > Len(delivered[t])
  /\ LET sent == delivered'[t][Len(delivered'[t])]
         a == reader[sent.reader].agent
     IN \E b \in Agents \ {a} : SubscribedTo(t) = {b}

\* C24: a step of a stream of one agent changes nothing of another agent's
\* stream or subscribers, and no tab subscribed to one agent only is sent
\* the STREAM_CONTENT of another.
C24_AgentsIndependent ==
  [][/\ \A a \in Agents : StreamStepOf(a) => LeavesOthersAlone(a)
     /\ \A t \in Tabs : ~SentAcross(t)]_vars

\* r is the reader registered last for its agent
NewestOf(r) ==
  /\ reader[r].state # "unused"
  /\ \A q \in Readers :
       reader[q].state # "unused" /\ reader[q].agent = reader[r].agent => q <= r

\* C25: while the read loop of the reader registered last for an agent is
\* still reading from it, the registry maps the agent to that reader.
C25_NewestReaderRegistered ==
  \A r \in Readers :
    (NewestOf(r) /\ proc[r].pc = "reading" /\ reader[r].state = "open")
      => activeStreams[reader[r].agent] = r

\* tab t was taken out of every subscriber set and has not been added since
RemovedFromAll(t) ==
  /\ tabLog[t].last \in {"LEAVE_PANEL", "removed", "loading", "pruned"}
  /\ SubscribedTo(t) = {}

\* C26: no STREAM_CONTENT is given to tabs.sendMessage for a tab that has
\* been removed from every subscriber set and has not joined again.
C26_NothingSentAfterRemoval ==
  [][\A t \in Tabs :
       RemovedFromAll(t) => Len(delivered'[t]) <= Len(delivered[t])]_vars

\* something is left that settles the promise of request id: its entry in
\* pendingRequests, for the message handler or the timer to find
CanSettle(id) == id \in mcp.pendingRequests

\* C27: the promise of a request with an id does not stay pending for ever:
\* while it is pending, its entry is there for the response or the timer to
\* settle it, and a failed POST has rejected it.
C27_RequestSettles ==
  \A id \in RequestNumbers :
    /\ mcp.sent[id].promise = "pending" => CanSettle(id)
    /\ mcp.sent[id].post = "failed" => mcp.sent[id].promise # "pending"

\* message i of the broadcasts tells the user something
TellsUser(m) ==
  \/ m.action = "STREAM_CONTENT" /\ m.content # ""
  \/ m.action = "SHOW_ERROR"

\* C28: a run() that has returned broadcast, before its HIDE_LOADING, a
\* STREAM_CONTENT with content or a SHOW_ERROR.
C28_RunTellsUser ==
  handler.pc = "returned" =>
    \E i, j \in DOMAIN handler.broadcasts :
      /\ i < j
      /\ TellsUser(handler.broadcasts[i])
      /\ handler.broadcasts[j].action = "HIDE_LOADING"

\* C29: after the catch block of an iteration has run, the loop has stopped
\* at that iteration, the non-empty error response has been broadcast as
\* STREAM_CONTENT, and no LLM call or tool call follows.
C29_ThrowStopsLoopWithMessage ==
  /\ [](handler.iterationError =>
          /\ handler.pc \in {"storeMessage", "returned"}
          /\ handler.calls.llm = handler.currentIteration
          /\ handler.finalResponse = ErrorResponse
          /\ ErrorResponse # ""
          /\ \E i \in DOMAIN handler.broadcasts :
               handler.broadcasts[i] = StreamContent(ErrorResponse, TRUE))
  /\ [][handler.iterationError =>
          /\ handler'.calls.llm = handler.calls.llm
          /\ handler'.messageHistory = handler.messageHistory]_vars

\* a run ended by a tool call without `function` in the second response,
\* after the tool call of the first was executed
C29_Witness ==
  /\ handler.pc = "returned"
  /\ handler.iterationError
  /\ handler.calls.llm = 2
  /\ \E k \in DOMAIN handler.messageHistory :
       /\ handler.messageHistory[k].role = "assistant"
       /\ handler.messageHistory[k].tool_calls = <<1, 2>>
       /\ Len(handler.messageHistory) = k + 1
       /\ handler.messageHistory[k + 1].role = "tool"

\* no ConversationManager call is in flight
NoCallInFlight == \A c \in Calls : conversations.calls[c].op = "none"

\* C30: once no ConversationManager call is in flight, every list the
\* conversation cache holds is the list getConversationMessages would compute
\* from the stored messageHistory.
C30_CacheMatchesHistory ==
  NoCallInFlight =>
    \A id \in DOMAIN conversations.conversationCache :
      conversations.conversationCache[id]
        = MessagesOf(conversations.messageHistory, id)

\* the entries of a history
EntriesOf(messageHistory) == {messageHistory[i] : i \in DOMAIN messageHistory}

\* the history never reached the limit of 500 entries: no entry was evicted
NothingEvicted == Len(conversations.messageHistory) < HistoryLimit

\* C31: the entry of a storeMessage call that returned (the stored lastMessage
\* is the entry of the latest such call) is in the stored messageHistory as
\* long as no entry was evicted by the cap; no conversation is ever cleared here.
C31_StoredEntryStays ==
  (conversations.lastMessage # <<>> /\ NothingEvicted) =>
    conversations.lastMessage \in EntriesOf(conversations.messageHistory)

\* the contents of the deltas a processStream call broadcast
DeltasOf(r) ==
  LET cs == ContentMsgs(proc[r].msgs)
  IN [i \in 1..Len(cs) |-> cs[i].content]

\* C32: when the body has ended, the deltas broadcast for it are those of the
\* same text with a newline appended: a last line without newline is handled
\* like a complete line.
C32_LastLineLikeAnyLine ==
  \A r \in Readers :
    (proc[r].pc = "done" /\ reader[r].state = "closed") =>
      DeltasOf(r) = ContentsOf(proc[r].text \o <<NL>>)

\* C33: a 2-byte character whose bytes arrived in two chunks gives the deltas
\* it gives when the body arrives as one chunk.
C33_SplitCharacterDecoded ==
  \A r \in Readers :
    (proc[r].cutInChar /\ proc[r].pc = "done" /\ reader[r].state = "closed") =>
      DeltasOf(r) =
        LET cs == ContentMsgs(OneChunkRun(reader[r].consumed).done)
        IN [i \in 1..Len(cs) |-> cs[i].content]

\* the LLM answered with a text and no tool calls: only then is the final
\* response that text
TextAnswered == handler.finalResponse = Answer

\* C34: once an LLM response with text and no tool calls has been handled, the
\* run has broadcast exactly one STREAM_CONTENT, with isFirst = true and the
\* full text, and it makes no further LLM call or tool call.
C34_TextAnswerDeliveredOnce ==
  /\ [](TextAnswered =>
          /\ ContentMsgs(handler.broadcasts) = <<StreamContent(Answer, TRUE)>>
          /\ handler.pc \in {"storeMessage", "returned"})
  /\ [][TextAnswered =>
          /\ handler'.calls.llm = handler.calls.llm
          /\ handler'.pc \notin {"callLLM", "executeTool"}
          /\ handler'.messageHistory = handler.messageHistory]_vars

\* a text answer in the third iteration, after two rounds of tool calls
C34_Witness ==
  /\ handler.pc = "returned"
  /\ TextAnswered
  /\ handler.currentIteration = 3
  /\ handler.calls.llm = 3

\* C35: a run() whose loop ended with a final text has attempted storeMessage
\* once, with the user message and that text, has returned success and has
\* broadcast no SHOW_ERROR, whether the store failed or not; no run attempts
\* storeMessage twice.
C35_StoredOnceFailureHarmless ==
  /\ handler.calls.store <= 1
  /\ (handler.pc = "returned" /\ handler.finalResponse # "") =>
       /\ handler.calls.store = 1
       /\ handler.stored = <<UserMessage.content, handler.finalResponse>>
       /\ handler.result = "success"
       /\ \A i \in DOMAIN handler.broadcasts :
            handler.broadcasts[i].action # "SHOW_ERROR"

\* the store of an answer failed
C35_Witness ==
  /\ handler.pc = "returned"
  /\ handler.finalResponse = Answer
  /\ handler.storeError
  /\ handler.calls.store = 1

\* a callback of the broadcast of message idx of reader r has not resumed
Undelivered(r, idx) == \E task \in pending : task.reader = r /\ task.idx = idx

\* C36: a processStream call that is reading completes, whether the callbacks
\* of its broadcasts resume or not, and a step that reads the next chunk is
\* taken with callbacks of earlier broadcasts still suspended.
C36_StreamNotBlockedByDelivery ==
  (\E r \in Readers : proc[r].pc = "reading")
    ~> (\E r \in Readers :
          /\ proc[r].pc = "done"
          /\ \A other \in Readers \ {r} : proc[other].pc # "reading")

\* the call has completed and the callback of its first delta never resumed
C36_Witness ==
  \E r \in Readers :
    /\ proc[r].pc = "done"
    /\ Len(ContentMsgs(proc[r].msgs)) = 2
    /\ Undelivered(r, 1)

\* C37: removeAgent(agentId) returns true exactly when an agent with that id
\* was in the list, also when it was the last one and a default agent took
\* its place.
C37_RemoveAgentReturnValue ==
  [][\A agentId, id \in AgentIds :
       removeAgent(agentId, id) =>
         (agentManager'.removed = "true"
            <=> findIndex(agentManager.agents, agentId) # 0)]_vars

====
